---- MODULE Spec2Model ----
(***************************************************************************)
(* Rat placement for Barn Hunt course maps (dairiki/inkex-bh).             *)
(*                                                                         *)
(* Two revisions of the hide-rats extension are modelled side by side:     *)
(*   - src/barnhunt/bh-hide-rats.py  (current; names without suffix)       *)
(*   - src/bh-hide-rats.py           (2019 revision; names ending in _v0)  *)
(*                                                                         *)
(* Coordinates are integers.  A bounding box is a record                   *)
(* [xmin, xmax, ymin, ymax] as in the BoundingBox namedtuple.              *)
(***************************************************************************)
EXTENDS Integers, Sequences, FiniteSets, TLC

VARIABLES
    rp,     \* the frame of one RatPlacer.random_position call
    doc,    \* the SVG document
    run,    \* the HideRats invocation in progress, or how the last one ended
    before  \* the document as it was when the last invocation started

vars == <<rp, doc, run, before>>

----------------------------------------------------------------------------
(* Bounds of the model *)

MaxCoord == 2        \* boundary and exclusion corners range over 0..MaxCoord
MaxDim == 2          \* marker width and height range over 0..MaxDim
MaxExcl == 1         \* number of exclusion boxes given to random_position
MaxTriesSmall == 2   \* explicit max_tries arguments range over 1..MaxTriesSmall
PageW == 3           \* page width of the documents
PageH == 1           \* page height of the documents
MaxRuns == 2         \* HideRats invocations in one behaviour
MaxSel == 2          \* elements selected for one invocation
MaxDrawn == 1        \* rectangles a user draws into one guide layer
Res == 3             \* coordinate steps per step of "%f" (its sixth decimal)
MaxBoundaries == 3   \* boundary rectangles of a guide layer, boundary elements of a course
MaxGuideKids == 3    \* children of a guide layer given to the accessors
MaxChain == 2        \* ancestors of a marker that carry a transform
MaxCalls == 3        \* calls of set_visibility inside one context
MaxDepth == 2        \* directories above an AppImage's mount point
MaxFiles == 3        \* svg files of a symbol set
MaxSyms == 2         \* symbols in the defs of one file

(* Program constants *)

DefaultMaxTries == 128   \* random_position(..., max_tries=128)

----------------------------------------------------------------------------
(* Geometry primitives *)

Max(a, b) == IF a >= b THEN a ELSE b
Min(a, b) == IF a <= b THEN a ELSE b

BoundingBox(x0, x1, y0, y1) == [xmin |-> x0, xmax |-> x1, ymin |-> y0, ymax |-> y1]

width(b) == b.xmax - b.xmin
height(b) == b.ymax - b.ymin

\* rectangles without their edges: touching does not count
overlaps_open(self, other) ==
    /\ self.xmin < other.xmax
    /\ self.ymin < other.ymax
    /\ other.xmin < self.xmax
    /\ other.ymin < self.ymax

\* BoundingBox.overlaps of the 2019 revision: closed rectangles, touching counts
overlaps(self, other) ==
    /\ self.xmin <= other.xmax
    /\ self.ymin <= other.ymax
    /\ other.xmin <= self.xmax
    /\ other.ymin <= self.ymax

\* inkex.BoundingBox.__and__: the intersection of the two boxes, axis by axis
\* (max of the minima, min of the maxima); an axis with no common point makes
\* the result empty, and an empty box is falsy.
bbox_and(a, b) ==
    [xmin |-> Max(a.xmin, b.xmin), xmax |-> Min(a.xmax, b.xmax),
     ymin |-> Max(a.ymin, b.ymin), ymax |-> Min(a.ymax, b.ymax)]

bbox_bool(b) == b.xmin <= b.xmax /\ b.ymin <= b.ymax

\* random.uniform(a, b): any value between the two arguments, in either order
uniform(a, b) == IF a <= b THEN a..b ELSE b..a

----------------------------------------------------------------------------
(* RatPlacer.random_position, both revisions *)

intersects_excluded(bbox, exclusions) ==
    \E i \in 1..Len(exclusions) : bbox_bool(bbox_and(bbox, exclusions[i]))

intersects_excluded_v0(bbox, exclusions) ==
    \E i \in 1..Len(exclusions) : overlaps(bbox, exclusions[i])

\* an interval whose end is not held at the start
sample_range_unclamped(boundary, w, h) ==
    [x0 |-> boundary.xmin, x1 |-> boundary.xmax - w,
     y0 |-> boundary.ymin, y1 |-> boundary.ymax - h]

\* the sampling interval of each axis: x0, x1, y0, y1 of the current revision
sample_range(boundary, w, h) ==
    [x0 |-> boundary.xmin, x1 |-> Max(boundary.xmax - w, boundary.xmin),
     y0 |-> boundary.ymin, y1 |-> Max(boundary.ymax - h, boundary.ymin)]

\* xmin, xmax, ymin, ymax after the clamping of the 2019 revision
sample_range_v0(boundary, w, h) ==
    [x0 |-> boundary.xmin, x1 |-> Max(boundary.xmax - w, boundary.xmin),
     y0 |-> boundary.ymin, y1 |-> Max(boundary.ymax - h, boundary.ymin)]

\* new_bbox: the candidate box of the marker's size at (x, y)
new_bbox(x, y, w, h) == BoundingBox(x, x + w, y, y + h)

RangeOf(f) ==
    IF f.ver = "v0" THEN sample_range_v0(f.boundary, f.w, f.h)
    ELSE sample_range(f.boundary, f.w, f.h)

Rejected(f, x, y) ==
    IF f.ver = "v0" THEN intersects_excluded_v0(new_bbox(x, y, f.w, f.h), f.exclusions)
    ELSE intersects_excluded(new_bbox(x, y, f.w, f.h), f.exclusions)

\* a budget of one more try
give_up_late(n, max_tries) == n > max_tries

\* the loop is left when a candidate is accepted or the budget is used up
give_up(n, max_tries) == n >= max_tries

\* the position handed back once the loop is left
returned_pos(f, x, y) == <<x, y>>

\* A frame before the first draw.
Frame(ver, boundary, exclusions, w, h, max_tries) ==
    [ver |-> ver, boundary |-> boundary, exclusions |-> exclusions,
     w |-> w, h |-> h, max_tries |-> max_tries,
     pc |-> "loop", n |-> 0, x |-> 0, y |-> 0,
     warned |-> <<>>, ret |-> <<>>]

\* One pass of the loop body: draw a candidate, test it, leave or go on.
\* `warned` collects the try counts named by the messages given to
\* inkex.errormsg.
Sample(f, x, y) ==
    LET n == f.n + 1
        hit == Rejected(f, x, y)
        over == give_up(n, f.max_tries)
    IN  [f EXCEPT !.n = n, !.x = x, !.y = y,
                  !.pc = IF ~hit \/ over THEN "done" ELSE "loop",
                  !.warned = IF hit /\ over
                             THEN Append(@, IF f.ver = "v0" THEN n ELSE f.max_tries)
                             ELSE @,
                  !.ret = IF ~hit \/ over THEN returned_pos(f, x, y) ELSE @]

RPSample ==
    /\ rp.pc = "loop"
    /\ \E x \in uniform(RangeOf(rp).x0, RangeOf(rp).x1),
          y \in uniform(RangeOf(rp).y0, RangeOf(rp).y1) :
          rp' = Sample(rp, x, y)

----------------------------------------------------------------------------
(* Inputs of random_position *)

Boxes == { BoundingBox(x0, x1, y0, y1) :
             x0 \in 0..MaxCoord, x1 \in 0..MaxCoord,
             y0 \in 0..MaxCoord, y1 \in 0..MaxCoord }

ValidBoxes == { b \in Boxes : b.xmin <= b.xmax /\ b.ymin <= b.ymax }

SeqsUpTo(S, k) == UNION { [1..m -> S] : m \in 0..k }

\* The worked examples of the specification, in units of ten user units.
ExampleFeasible ==
    [boundary |-> BoundingBox(0, 10, 0, 10), w |-> 1, h |-> 1,
     exclusions |-> << BoundingBox(0, 9, 0, 10) >>]

ExampleFull ==
    [boundary |-> BoundingBox(0, 1, 0, 1), w |-> 1, h |-> 1,
     exclusions |-> << BoundingBox(0, 1, 0, 1) >>]

----------------------------------------------------------------------------
(* The document: an element is a record of the attributes the extension      *)
(* reads or writes, with its children in document order.  An element is      *)
(* named by its path, the sequence of child indices leading to it from the   *)
(* root <svg> element (the root's path is <<>>).                             *)

NoBox == [none |-> TRUE]

Elem(tag, attrs, kids) ==
    [tag |-> tag,                 \* "svg", "defs", "symbol", "g", "use", "rect"
     id |-> attrs.id,             \* id attribute, "" when absent
     layer |-> attrs.layer,       \* inkscape:groupmode = 'layer'
     label |-> attrs.label,       \* inkscape:label as a sequence of tokens
     hidden |-> attrs.hidden,     \* style has display:none
     locked |-> attrs.locked,     \* sodipodi:insensitive = 'true'
     href |-> attrs.href,         \* xlink:href as <<prefix, id>> ("#" before a local id), <<>> when absent
     gmode |-> attrs.gmode,       \* bh:rat-guide-mode, "" when absent
     place |-> attrs.place,       \* bh:rat-placement (bh:rat-boundary, bh:rat-exclusion in v0)
     box |-> attrs.box,           \* own geometry in local coordinates, or NoBox
     tf |-> attrs.tf,             \* transform attribute: a translation <<dx, dy>>
     kids |-> kids]

NoAttrs ==
    [id |-> "", layer |-> FALSE, label |-> <<>>, hidden |-> FALSE, locked |-> FALSE,
     href |-> <<>>, gmode |-> "", place |-> "", box |-> NoBox, tf |-> <<0, 0>>]

RECURSIVE NodeAt(_, _)
NodeAt(n, p) == IF p = <<>> THEN n ELSE NodeAt(n.kids[Head(p)], Tail(p))

RECURSIVE SetAt(_, _, _)
SetAt(n, p, new) ==
    IF p = <<>> THEN new
    ELSE [n EXCEPT !.kids[Head(p)] = SetAt(@, Tail(p), new)]

RECURSIVE FlatCat(_)
FlatCat(ss) == IF ss = <<>> THEN <<>> ELSE Head(ss) \o FlatCat(Tail(ss))

\* Paths of n and of its descendants in document order, each prefixed by `at`.
RECURSIVE SubtreePaths(_, _)
SubtreePaths(n, at) ==
    <<at>> \o FlatCat([i \in 1..Len(n.kids) |-> SubtreePaths(n.kids[i], Append(at, i))])

\* descendant-or-self::* and descendant::* of the element at p
DescOrSelf(d, p) == SubtreePaths(NodeAt(d, p), p)
Desc(d, p) == Tail(DescOrSelf(d, p))

IsPrefix(a, b) == Len(a) <= Len(b) /\ SubSeq(b, 1, Len(a)) = a
Parent(p) == SubSeq(p, 1, Len(p) - 1)

\* proper ancestors of p, nearest first
Ancestors(p) == [i \in 1..Len(p) |-> SubSeq(p, 1, Len(p) - i)]

SeqToSet(s) == { s[i] : i \in 1..Len(s) }

\* element.getparent().remove(element) for each path of ps (document order),
\* done from the last to the first so that earlier paths stay valid
RemoveKid(n, i) == [n EXCEPT !.kids = SubSeq(@, 1, i - 1) \o SubSeq(@, i + 1, Len(@))]

RECURSIVE RemoveAll(_, _)
RemoveAll(d, ps) ==
    IF ps = <<>> THEN d
    ELSE LET p == ps[Len(ps)]
             rest == SubSeq(ps, 1, Len(ps) - 1)
             par == Parent(p)
         IN  RemoveAll(SetAt(d, par, RemoveKid(NodeAt(d, par), p[Len(p)])), rest)

\* parent.append(child), parent.insert(0, child)
AppendKid(d, p, child) == SetAt(d, p, [NodeAt(d, p) EXCEPT !.kids = Append(@, child)])
InsertFirst(d, p, child) == SetAt(d, p, [NodeAt(d, p) EXCEPT !.kids = <<child>> \o @])

----------------------------------------------------------------------------
(* Transforms (translations) and bounding boxes *)

Shift(b, t) ==
    BoundingBox(b.xmin + t[1], b.xmax + t[1], b.ymin + t[2], b.ymax + t[2])

\* boxunion / BoundingBox.__add__: the smallest box holding both
Union2(a, b) ==
    IF a = NoBox THEN b ELSE IF b = NoBox THEN a
    ELSE BoundingBox(Min(a.xmin, b.xmin), Max(a.xmax, b.xmax),
                     Min(a.ymin, b.ymin), Max(a.ymax, b.ymax))

RECURSIVE SumTf(_)
SumTf(ts) ==
    IF ts = <<>> THEN <<0, 0>>
    ELSE LET r == SumTf(Tail(ts)) IN <<Head(ts)[1] + r[1], Head(ts)[2] + r[2]>>

\* composed_transform of the element at p: its own transform and those of all
\* its ancestors
composed_transform(d, p) ==
    SumTf([i \in 1..(Len(p) + 1) |-> NodeAt(d, SubSeq(p, 1, i - 1)).tf])

Identity == <<0, 0>>

\* The box of an element in its parent's coordinates: its own geometry, or
\* the union of its children's boxes, moved by its transform.
RECURSIVE LocalBox(_)
RECURSIVE UnionAll(_)
UnionAll(bs) == IF bs = <<>> THEN NoBox ELSE Union2(Head(bs), UnionAll(Tail(bs)))

LocalBox(n) ==
    LET own == IF n.box # NoBox THEN n.box
               ELSE UnionAll([i \in 1..Len(n.kids) |-> LocalBox(n.kids[i])])
    IN  IF own = NoBox THEN NoBox ELSE Shift(own, n.tf)

\* elem.bounding_box(transform)
elem_bounding_box(n, transform) ==
    IF LocalBox(n) = NoBox THEN NoBox ELSE Shift(LocalBox(n), transform)

\* bounding_box(elem): the box in page coordinates
bounding_box(d, p) ==
    elem_bounding_box(NodeAt(d, p), composed_transform(d, Parent(p)))

----------------------------------------------------------------------------
(* Layers and selections (src/barnhunt/bh-hide-rats.py) *)

None == <<0>>     \* Python's None where a path is expected

IsLayer(n) == n.tag = "g" /\ n.layer

\* a search that takes the outermost layer around the element
containing_layer_outermost(d, p) ==
    LET ls == SelectSeq(Ancestors(p), LAMBDA a : IsLayer(NodeAt(d, a)))
    IN  IF ls = <<>> THEN None ELSE ls[Len(ls)]

\* containing_layer: the nearest proper ancestor that is a layer, or None
containing_layer(d, p) ==
    LET ls == SelectSeq(Ancestors(p), LAMBDA a : IsLayer(NodeAt(d, a)))
    IN  IF ls = <<>> THEN None ELSE ls[1]

\* hrefs for which re.match(r"#(rat|.*tube)", href) succeeds, among the
\* hrefs that occur in the documents of the model
MarkerHrefs == { <<"#", "rat">>, <<"#", "pvc-tube">> }

looks_like_rat(n) == n.tag = "use" /\ n.href \in MarkerHrefs

\* a search that takes any one of the layers of the selection
find_rat_layer_lax(d, rats) ==
    LET layers == { containing_layer(d, rats[i]) : i \in 1..Len(rats) }
    IN  IF \E i \in 1..Len(rats) : ~looks_like_rat(NodeAt(d, rats[i]))
        THEN [ok |-> FALSE, msg |-> "Fishy looking rats", layer |-> None]
        ELSE IF layers = {}
        THEN [ok |-> FALSE, msg |-> "No rats selected", layer |-> None]
        ELSE IF layers = {None}
        THEN [ok |-> FALSE, msg |-> "Rats are not on a layer", layer |-> None]
        ELSE [ok |-> TRUE, msg |-> "", layer |-> CHOOSE l \in layers : l # None]

\* find_rat_layer: the layer of the selected markers, or the BadRats message
find_rat_layer(d, rats) ==
    LET layers == { containing_layer(d, rats[i]) : i \in 1..Len(rats) }
    IN  IF \E i \in 1..Len(rats) : ~looks_like_rat(NodeAt(d, rats[i]))
        THEN [ok |-> FALSE, msg |-> "Fishy looking rats", layer |-> None]
        ELSE IF Cardinality(layers) = 0
        THEN [ok |-> FALSE, msg |-> "No rats selected", layer |-> None]
        ELSE IF Cardinality(layers) # 1
        THEN [ok |-> FALSE, msg |-> "Rats are not all on the same layer", layer |-> None]
        ELSE IF layers = {None}
        THEN [ok |-> FALSE, msg |-> "Rats are not on a layer", layer |-> None]
        ELSE [ok |-> TRUE, msg |-> "", layer |-> CHOOSE l \in layers : TRUE]

----------------------------------------------------------------------------
(* Permanent exclusions and the boundary (src/barnhunt/bh-hide-rats.py) *)

AddTf(a, b) == <<a[1] + b[1], a[2] + b[2]>>

\* top-level children other than <defs>, with their descendants
OutsideDefs(d) ==
    FlatCat([i \in 1..Len(d.kids) |->
               IF d.kids[i].tag = "defs" THEN <<>> ELSE DescOrSelf(d, <<i>>)])

\* ancestor::svg:g[@inkscape:groupmode='layer'][contains(@style,'display:none')]
is_hidden(d, p) ==
    \E i \in 1..Len(p) :
        LET a == NodeAt(d, SubSeq(p, 1, Len(p) - i)) IN IsLayer(a) /\ a.hidden

IsExclOrUse(n) ==
    \/ n.place = "exclude"
    \/ (n.tag = "use" /\ n.href # <<>> /\ n.href[1] = "#")

\* a selection that leaves the root's restrictions out
exclusion_candidates_unfiltered(d, p) ==
    SelectSeq(DescOrSelf(d, p), LAMBDA q : IsExclOrUse(NodeAt(d, q)))

\* the elements the xpath of _iter_exclusions selects below elem
exclusion_candidates(d, p) ==
    IF p = <<>>
    THEN SelectSeq(OutsideDefs(d),
                   LAMBDA q : IsExclOrUse(NodeAt(d, q)) /\ ~is_hidden(d, q))
    ELSE SelectSeq(DescOrSelf(d, p), LAMBDA q : IsExclOrUse(NodeAt(d, q)))

\* Use.href: the first element of the document with the id, or None
AllPaths(d) == DescOrSelf(d, <<>>)

href_target(d, href) ==
    LET hits == SelectSeq(AllPaths(d), LAMBDA q : NodeAt(d, q).id = href[2])
    IN  IF hits = <<>> THEN None ELSE hits[1]

NoExcl == [boxes |-> <<>>, warns |-> <<>>, crash |-> ""]

\* The recursion depth that only a cycle of references can use up: every
\* nested call is made for a <use>, and a chain of calls in which no <use>
\* comes twice is no longer than the number of <use> elements.
Fuel(d) == Len(SelectSeq(AllPaths(d), LAMBDA q : NodeAt(d, q).tag = "use")) + 1

\* _iter_exclusions(elem, transform).  `fuel` is the recursion depth left:
\* when it is used up the chain of references goes round a cycle, and the
\* recursion ends only at the interpreter's limit (RecursionError).
RECURSIVE iter_exclusions(_, _, _, _)
RECURSIVE iter_exclusion_list(_, _, _, _)
iter_exclusions(d, p, transform, fuel) ==
    IF fuel = 0
    THEN [boxes |-> <<>>, warns |-> <<>>, crash |-> "RecursionError"]
    ELSE iter_exclusion_list(d, exclusion_candidates(d, p), transform, fuel)

iter_exclusion_list(d, els, transform, fuel) ==
    IF els = <<>> THEN NoExcl
    ELSE LET more(first) ==
                 IF first.crash # "" THEN first
                 ELSE [iter_exclusion_list(d, Tail(els), transform, fuel)
                          EXCEPT !.boxes = first.boxes \o @, !.warns = first.warns \o @]
             resolve(el, target) ==
                 IF target = None
                 THEN [NoExcl EXCEPT !.warns = << "Invalid href in use" >>]
                 ELSE iter_exclusions(d, target, AddTf(transform, composed_transform(d, el)),
                                      fuel - 1)
             one(el, n) ==
                 IF n.place = "exclude"
                 THEN [NoExcl EXCEPT !.boxes =
                          << elem_bounding_box(
                                n, AddTf(transform, composed_transform(d, Parent(el)))) >>]
                 ELSE resolve(el, href_target(d, n.href))
         IN  more(one(Head(els), NodeAt(d, Head(els))))

\* find_exclusions(svg)
find_exclusions(d) == iter_exclusions(d, <<>>, Identity, Fuel(d))

\* get_rat_boundary(svg); the page box is the root element's own box
get_rat_boundary(d) ==
    LET boundaries == SelectSeq(OutsideDefs(d), LAMBDA q : NodeAt(d, q).place = "boundary")
    IN  IF Len(boundaries) = 0 THEN d.box
        ELSE UnionAll([i \in 1..Len(boundaries) |-> bounding_box(d, boundaries[i])])

----------------------------------------------------------------------------
(* RatGuide (src/barnhunt/bh-hide-rats.py) *)

\* inkex.Rectangle.new(left, top, width, height) with the guide mode set
guide_rect(bbox, mode) ==
    Elem("rect", [NoAttrs EXCEPT !.gmode = mode,
                                 !.box = BoundingBox(bbox.xmin, bbox.xmin + width(bbox),
                                                     bbox.ymin, bbox.ymin + height(bbox))],
         <<>>)

\* _add_rect: the rectangle becomes the guide layer's last child
add_rect(d, guide, bbox, mode) == AppendKid(d, guide, guide_rect(bbox, mode))

RECURSIVE add_rects(_, _, _, _)
add_rects(d, guide, bboxes, mode) ==
    IF bboxes = <<>> THEN d
    ELSE add_rects(add_rect(d, guide, Head(bboxes), mode), guide, Tail(bboxes), mode)

\* a deletion that leaves the notation rectangles where they are
delete_rects_but_notation(d, guide, mode) ==
    IF mode = "notation" THEN d
    ELSE RemoveAll(d, SelectSeq(Desc(d, guide), LAMBDA q : NodeAt(d, q).gmode = mode))

\* a deletion that does not look at the mode
delete_rects_any(d, guide, mode) == RemoveAll(d, Desc(d, guide))

\* _delete_rects: every descendant of the guide layer with the given mode
delete_rects(d, guide, mode) ==
    RemoveAll(d, SelectSeq(Desc(d, guide), LAMBDA q : NodeAt(d, q).gmode = mode))

Word(s) == [kind |-> "word", text |-> s, val |-> 0]
Num(k) == [kind |-> "num", text |-> "", val |-> k]

\* inkex.Layer.new("[h] Rat Placement Guides"), locked and tagged
new_guide_layer ==
    Elem("g", [NoAttrs EXCEPT !.layer = TRUE, !.locked = TRUE, !.gmode = "layer",
                              !.label = << Word("[h]"), Word("Rat"), Word("Placement"),
                                           Word("Guides") >>],
         <<>>)

\* a selection that takes the untagged elements at any depth
guide_exclusion_elems_deep(d, guide) ==
    SelectSeq(Desc(d, guide), LAMBDA q : NodeAt(d, q).gmode \in {"exclusion", ""})

\* .//*[@bh:rat-guide-mode='exclusion'] | ./*[not(@bh:rat-guide-mode)]
guide_exclusion_elems(d, guide) ==
    SelectSeq(Desc(d, guide),
              LAMBDA q : \/ NodeAt(d, q).gmode = "exclusion"
                         \/ (Parent(q) = guide /\ NodeAt(d, q).gmode = ""))

\* .//svg:g[@bh:rat-guide-mode='layer'] below the parent layer
existing_guides(d, parent_layer) ==
    SelectSeq(Desc(d, parent_layer),
              LAMBDA q : NodeAt(d, q).tag = "g" /\ NodeAt(d, q).gmode = "layer")

\* RatGuide.__init__(exclusions, parent_layer): the document after it, the
\* guide layer's path and the exclusions list; `crash` names the exception
\* when one is raised (the document keeps what was done before it).
RatGuide_init(d, exclusions, parent_layer) ==
    LET collect(d2, guide, found) ==
            [crash |-> "", d |-> d2, guide |-> guide,
             exclusions |-> exclusions \o
                 [i \in 1..Len(found) |-> bounding_box(d2, found[i])]]
        search(d2, guide) == collect(d2, guide, guide_exclusion_elems(d2, guide))
        notate(d1, guide) ==
            IF composed_transform(d1, guide) # Identity
            THEN [crash |-> "AssertionError", d |-> d1, guide |-> guide,
                  exclusions |-> exclusions]
            ELSE search(add_rects(d1, guide, exclusions, "notation"), guide)
        use(existing) ==
            IF existing # <<>>
            THEN notate(delete_rects(d, existing[1], "notation"), existing[1])
            ELSE notate(AppendKid(d, parent_layer, new_guide_layer),
                        Append(parent_layer, Len(NodeAt(d, parent_layer).kids) + 1))
    IN  IF parent_layer = None
        THEN [crash |-> "AttributeError", d |-> d, guide |-> None, exclusions |-> exclusions]
        ELSE use(existing_guides(d, parent_layer))

\* RatGuide.reset
guide_reset(d, guide) == delete_rects(d, guide, "exclusion")

\* a list that is left as it is
add_exclusion_list_deferred(exclusions, bbox) == exclusions

\* RatGuide.add_exclusion: the rectangle is drawn and the box joins the list
add_exclusion_list(exclusions, bbox) == Append(exclusions, bbox)

----------------------------------------------------------------------------
(* Blind cloning (src/barnhunt/bh-hide-rats.py) *)

\* a copy that keeps the id attributes
clone_keep_ids(n) == n

\* _clone_layer.clone: the same element without its id, children cloned
RECURSIVE clone(_)
clone(n) == [n EXCEPT !.id = "", !.kids = [i \in 1..Len(n.kids) |-> clone(n.kids[i])]]

\* first tokens that begin with "[o" and close the bracket
OFlags == {"[o]", "[o|x]"}

\* pat.match(label): ^(\[o.*?\].*?)\s+(\d+)\s*$
label_matches(label) ==
    /\ Len(label) >= 2
    /\ label[1].kind = "word" /\ label[1].text \in OFlags
    /\ label[Len(label)].kind = "num"

SetMax(S) == CHOOSE m \in S : \A k \in S : k <= m

\* a naming that takes the prefix of the first matching label
dwim_rat_layer_name_first(blind_parent) ==
    LET layers == SelectSeq(blind_parent.kids, LAMBDA k : IsLayer(k) /\ k.label # <<>>)
        hits == SelectSeq(layers, LAMBDA k : label_matches(k.label))
        indexes == { hits[i].label[Len(hits[i].label)].val : i \in 1..Len(hits) }
    IN  IF hits = <<>> THEN [crash |-> "ValueError", label |-> <<>>]
        ELSE [crash |-> "",
              label |-> Append(SubSeq(hits[1].label, 1, Len(hits[1].label) - 1),
                               Num(SetMax(indexes) + 1))]

\* _dwim_rat_layer_name(blind_parent): unpacking the two sets fails with
\* ValueError when no label matches (zip of nothing yields nothing)
dwim_rat_layer_name(blind_parent) ==
    LET layers == SelectSeq(blind_parent.kids, LAMBDA k : IsLayer(k) /\ k.label # <<>>)
        hits == SelectSeq(layers, LAMBDA k : label_matches(k.label))
        names == { SubSeq(hits[i].label, 1, Len(hits[i].label) - 1) : i \in 1..Len(hits) }
        indexes == { hits[i].label[Len(hits[i].label)].val : i \in 1..Len(hits) }
        name == IF Cardinality(names) = 1 THEN CHOOSE nm \in names : TRUE
                ELSE << Word("Blind") >>
    IN  IF hits = <<>> THEN [crash |-> "ValueError", label |-> <<>>]
        ELSE [crash |-> "", label |-> Append(name, Num(SetMax(indexes) + 1))]

\* the path of q after an element was inserted as the first child of par
ShiftPath(q, par) ==
    IF q # None /\ IsPrefix(par, q) /\ Len(q) > Len(par)
    THEN [q EXCEPT ![Len(par) + 1] = @ + 1]
    ELSE q

\* a layer that is hidden and left sensitive
hide_only(n) == [n EXCEPT !.hidden = TRUE]

\* rat_layer.style["display"] = "none"; rat_layer.set_sensitive(False)
hide_and_lock(n) == [n EXCEPT !.hidden = TRUE, !.locked = TRUE]

\* the selected marker itself, where it lies once the clone is inserted
selected_original(new_path, rat_layer, rat) == ShiftPath(rat, Parent(rat_layer))

\* _clone_layer: the copy of a selected element joins cloned_selected; it has
\* in the clone the place the element has in the layer
cloned_selected(new_path, rat_layer, rat) ==
    new_path \o SubSeq(rat, Len(rat_layer) + 1, Len(rat))

\* clone_rat_layer(rat_layer, rats): the clone becomes the first child of
\* the layer's parent, the original layer is hidden and locked; returns the
\* clone and the copies of the selected markers
clone_rat_layer(d, rat_layer, rats) ==
    LET parent == Parent(rat_layer)
        new_path == Append(parent, 1)
        hide(d1, orig) ==
            SetAt(d1, orig, hide_and_lock(NodeAt(d1, orig)))
        insert(name) ==
            IF name.crash # ""
            THEN [crash |-> name.crash, d |-> d, layer |-> rat_layer, rats |-> rats]
            ELSE [crash |-> "",
                  d |-> hide(InsertFirst(d, parent, [clone(NodeAt(d, rat_layer))
                                                        EXCEPT !.label = name.label]),
                             ShiftPath(rat_layer, parent)),
                  layer |-> new_path,
                  rats |-> [i \in 1..Len(rats) |->
                              cloned_selected(new_path, rat_layer, rats[i])]]
    IN  insert(dwim_rat_layer_name(NodeAt(d, parent)))

----------------------------------------------------------------------------
(* HideRats (src/barnhunt/bh-hide-rats.py) *)

\* What random_position can return for a marker of size w x h: a candidate
\* of the sampling range, with the warning exactly when it is a rejected one
\* (the loop hands back a rejected candidate only after max_tries of them).
random_position_results(ver, boundary, exclusions, w, h) ==
    LET f == Frame(ver, boundary, exclusions, w, h, DefaultMaxTries)
    IN  { [pos |-> returned_pos(f, x, y), warned |-> Rejected(f, x, y)] :
            x \in uniform(RangeOf(f).x0, RangeOf(f).x1),
            y \in uniform(RangeOf(f).y0, RangeOf(f).y1) }

\* RatPlacer.place_rat with the position drawn: the offset between the new
\* and the old top-left corner, mapped through the inverse parent transform,
\* is added to the marker's transform
place_rat(d, rat, newpos) ==
    LET add_translate(p2, p1) ==
            SetAt(d, rat, [NodeAt(d, rat) EXCEPT
                             !.tf = AddTf(@, << p2[1] - p1[1], p2[2] - p1[2] >>)])
        map(inverse_parent_transform, rat_bbox) ==
            add_translate(AddTf(inverse_parent_transform, newpos),
                          AddTf(inverse_parent_transform, << rat_bbox.xmin, rat_bbox.ymin >>))
        measure(parent_transform) ==
            map(<< -parent_transform[1], -parent_transform[2] >>,
                elem_bounding_box(NodeAt(d, rat), parent_transform))
    IN  measure(composed_transform(d, Parent(rat)))

Idle(ver, count) ==
    [pc |-> "idle", ver |-> ver, count |-> count, status |-> "none",
     restart |-> FALSE, newblind |-> FALSE,
     sel |-> <<>>, rats |-> <<>>, placed |-> <<>>, scope |-> None, guide |-> None,
     exclusions |-> <<>>, boundary |-> NoBox, msgs |-> <<>>]

\* HideRats.effect up to the placement loop: the document and the run after
\* it.  A BadRats is caught and reported (status "rejected"); any other
\* exception ends the run with a traceback (status "crashed").
effect_begin(d, r, rats, restart, newblind) ==
    LET base == [Idle(r.ver, r.count + 1) EXCEPT !.restart = restart,
                                                !.newblind = newblind, !.sel = rats]
        crashed(dd, warns) ==
            [d |-> dd, run |-> [base EXCEPT !.status = "crashed", !.msgs = warns]]
        loops(scope, guide, exclusions, warns, d3, c) ==
            IF c.crash # "" THEN crashed(d3, warns)
            ELSE [d |-> c.d,
                  run |-> [base EXCEPT !.pc = IF c.rats = <<>> THEN "idle" ELSE "placing",
                                       !.status = IF c.rats = <<>> THEN "ok" ELSE "running",
                                       !.rats = c.rats, !.guide = guide,
                                       !.scope = scope,
                                       !.exclusions = exclusions,
                                       !.boundary = get_rat_boundary(c.d),
                                       !.msgs = warns]]
        blind(rat_layer, scope, g, warns, d3) ==
            IF newblind
            THEN loops(scope, ShiftPath(g.guide, Parent(rat_layer)), g.exclusions, warns, d3,
                       clone_rat_layer(d3, rat_layer, rats))
            ELSE loops(scope, g.guide, g.exclusions, warns, d3,
                       [crash |-> "", d |-> d3, layer |-> rat_layer, rats |-> rats])
        reset(rat_layer, scope, g, warns) ==
            IF g.crash # "" THEN crashed(g.d, warns)
            ELSE blind(rat_layer, scope, g, warns,
                       IF restart \/ newblind THEN guide_reset(g.d, g.guide) ELSE g.d)
        guides(rat_layer, scope, fe) ==
            IF fe.crash # "" THEN crashed(d, fe.warns)
            ELSE reset(rat_layer, scope, RatGuide_init(d, fe.boxes, scope), fe.warns)
        layer(frl) ==
            IF ~frl.ok
            THEN [d |-> d, run |-> [base EXCEPT !.status = "rejected", !.msgs = << frl.msg >>]]
            ELSE guides(frl.layer, containing_layer(d, frl.layer), find_exclusions(d))
    IN  layer(find_rat_layer(d, rats))

\* one pass of the placement loop: hide_rat(rat, boundary, exclusions), then
\* guide_layer.add_exclusion(bounding_box(rat))
effect_place(d, r, res) ==
    LET left == Tail(r.rats)
        record(d1, bbox) ==
            [d |-> add_rect(d1, r.guide, bbox, "exclusion"),
             run |-> [r EXCEPT !.rats = left, !.placed = Append(@, Head(r.rats)),
                               !.exclusions = add_exclusion_list(@, bbox),
                               !.msgs = IF res.warned
                                        THEN Append(@, "Can not find non-excluded location")
                                        ELSE @,
                               !.pc = IF left = <<>> THEN "idle" ELSE "placing",
                               !.status = IF left = <<>> THEN "ok" ELSE "running"]]
        placed(d1) == record(d1, bounding_box(d1, Head(r.rats)))
    IN  placed(place_rat(d, Head(r.rats), res.pos))

\* The exit status of HideRats().run(): effect() returns normally after the
\* placement loop and also after a BadRats was caught and reported with
\* inkex.errormsg (nothing is raised again and nothing calls sys.exit), so
\* the script runs to its end; any other exception leaves it with a traceback.
exit_status(r) == IF r.status = "crashed" THEN 1 ELSE 0

----------------------------------------------------------------------------
(* The 2019 revision (src/bh-hide-rats.py) *)

\* "%f" % v: v rounded to the nearest value "%f" can print
Fmt(v) == Res * ((2 * v + Res) \div (2 * Res))

\* make_rect(bbox): x, y, width and height are written with "%f"
make_rect_v0(bbox) ==
    Elem("rect", [NoAttrs EXCEPT !.box =
                     BoundingBox(Fmt(bbox.xmin), Fmt(bbox.xmin) + Fmt(width(bbox)),
                                 Fmt(bbox.ymin), Fmt(bbox.ymin) + Fmt(height(bbox)))],
         <<>>)

\* Element.bbox: compute_bbox() under the composed transform of the parent
bbox_v0(d, p) == elem_bounding_box(NodeAt(d, p), composed_transform(d, Parent(p)))

\* RatGuide._compute_boundary(elems): the first box, to which the others are
\* added with +=.  BoundingBox is a namedtuple without __add__ (the union is
\* defined under the name __sum__), so each += concatenates: with two or
\* more elements the result is a plain tuple of 8, 12, ... numbers.
compute_boundary_v0(d, elems, page_bbox) ==
    IF elems = <<>> THEN [tuple |-> FALSE, box |-> page_bbox]
    ELSE IF Len(elems) = 1 THEN [tuple |-> FALSE, box |-> bbox_v0(d, elems[1])]
    ELSE [tuple |-> TRUE, box |-> NoBox]

\* the xpath of find_exclusions
exclusion_candidates_v0(d, p) ==
    IF p = <<>>
    THEN SelectSeq(OutsideDefs(d),
                   LAMBDA q : IsExclOrUse(NodeAt(d, q)) /\ ~is_hidden(d, q))
    ELSE SelectSeq(DescOrSelf(d, p), LAMBDA q : IsExclOrUse(NodeAt(d, q)))

\* find_exclusions(elem, transform): every element with the referenced id is
\* searched; `fuel` as in iter_exclusions
RECURSIVE find_exclusions_v0(_, _, _, _)
RECURSIVE find_exclusions_list_v0(_, _, _, _)
RECURSIVE find_exclusions_nodes_v0(_, _, _, _)
find_exclusions_v0(d, p, transform, fuel) ==
    IF fuel = 0 THEN [boxes |-> <<>>, crash |-> "RecursionError"]
    ELSE find_exclusions_list_v0(d, exclusion_candidates_v0(d, p), transform, fuel)

find_exclusions_nodes_v0(d, nodes, transform, fuel) ==
    IF nodes = <<>> THEN [boxes |-> <<>>, crash |-> ""]
    ELSE LET more(first) ==
                 IF first.crash # "" THEN first
                 ELSE [find_exclusions_nodes_v0(d, Tail(nodes), transform, fuel)
                          EXCEPT !.boxes = first.boxes \o @]
         IN  more(find_exclusions_v0(d, Head(nodes), transform, fuel))

find_exclusions_list_v0(d, els, transform, fuel) ==
    IF els = <<>> THEN [boxes |-> <<>>, crash |-> ""]
    ELSE LET more(first) ==
                 IF first.crash # "" THEN first
                 ELSE [find_exclusions_list_v0(d, Tail(els), transform, fuel)
                          EXCEPT !.boxes = first.boxes \o @]
             one(el, n) ==
                 IF n.place = "exclude"
                 THEN [boxes |-> << elem_bounding_box(
                                      n, AddTf(composed_transform(d, Parent(el)), transform)) >>,
                       crash |-> ""]
                 ELSE IF n.href[2] = ""
                 THEN [boxes |-> <<>>, crash |-> "AssertionError"]
                 ELSE find_exclusions_nodes_v0(
                          d, SelectSeq(AllPaths(d), LAMBDA q : NodeAt(d, q).id = n.href[2]),
                          AddTf(composed_transform(d, el), transform), fuel - 1)
         IN  more(one(Head(els), NodeAt(d, Head(els))))

\* a rectangle that takes the place of the one linked to the id before
add_exclusion_replace_v0(d, guide, bbox, src_id) ==
    LET linked == SelectSeq(Desc(d, guide), LAMBDA q : NodeAt(d, q).href = <<"#", src_id>>)
        d1 == IF src_id # "" THEN RemoveAll(d, linked) ELSE d
        rect == [make_rect_v0(bbox) EXCEPT !.gmode = "exclusion",
                    !.href = IF src_id # "" THEN <<"#", src_id>> ELSE <<>>]
    IN  AppendKid(d1, guide, rect)

\* a rectangle added without unlinking the earlier ones
add_exclusion_keep_links_v0(d, guide, bbox, src_id) ==
    LET rect == [make_rect_v0(bbox) EXCEPT !.gmode = "exclusion",
                    !.href = IF src_id # "" THEN <<"#", src_id>> ELSE <<>>]
    IN  AppendKid(d, guide, rect)

RECURSIVE DropHrefs(_, _)
DropHrefs(d, ps) ==
    IF ps = <<>> THEN d
    ELSE DropHrefs(SetAt(d, Head(ps), [NodeAt(d, Head(ps)) EXCEPT !.href = <<>>]), Tail(ps))

\* RatGuide.add_exclusion(bbox, src_id); src_id "" stands for None: elements
\* of the guide layer linked to the id lose the link, the new rectangle gets it
add_exclusion_v0(d, guide, bbox, src_id) ==
    LET linked == SelectSeq(Desc(d, guide), LAMBDA q : NodeAt(d, q).href = <<"#", src_id>>)
        d1 == IF src_id # "" THEN DropHrefs(d, linked) ELSE d
        rect == [make_rect_v0(bbox) EXCEPT !.gmode = "exclusion",
                    !.href = IF src_id # "" THEN <<"#", src_id>> ELSE <<>>]
    IN  AppendKid(d1, guide, rect)

RECURSIVE add_exclusions_v0(_, _, _)
add_exclusions_v0(d, guide, bboxes) ==
    IF bboxes = <<>> THEN d
    ELSE add_exclusions_v0(add_exclusion_v0(d, guide, Head(bboxes), ""), guide, Tail(bboxes))

\* RatGuide._populate_guide_layer: the boundary rectangle goes first, then
\* one exclusion rectangle per permanent exclusion
populate_guide_layer_v0(d, guide) ==
    LET exclude(d1, fe) ==
            IF fe.crash # "" THEN [crash |-> fe.crash, d |-> d1]
            ELSE [crash |-> "", d |-> add_exclusions_v0(d1, guide, fe.boxes)]
        found(d1) == exclude(d1, find_exclusions_v0(d1, <<>>, Identity, Fuel(d1)))
        bound(b) ==
            IF b.tuple THEN [crash |-> "AttributeError", d |-> d]
            ELSE found(InsertFirst(d, guide, [make_rect_v0(b.box) EXCEPT !.gmode = "boundary"]))
    IN  bound(compute_boundary_v0(
                  d, SelectSeq(AllPaths(d), LAMBDA q : NodeAt(d, q).place = "boundary"), d.box))

\* RatGuide._create_guide_layer: a locked layer appended to the root
new_guide_layer_v0 ==
    Elem("g", [NoAttrs EXCEPT !.layer = TRUE, !.locked = TRUE, !.gmode = "layer",
                              !.label = << Word("[h]"), Word("Rat"), Word("Placement"),
                                           Word("Guides") >>],
         <<>>)

\* //svg:g[@bh:rat-guide-mode='layer']
existing_guides_v0(d) ==
    SelectSeq(AllPaths(d), LAMBDA q : NodeAt(d, q).tag = "g" /\ NodeAt(d, q).gmode = "layer")

\* RatGuide.__init__(document, page_bbox)
RatGuide_init_v0(d) ==
    LET create(pop) == [crash |-> pop.crash, d |-> pop.d, guide |-> << Len(d.kids) + 1 >>]
        use(existing) ==
            IF existing # <<>> THEN [crash |-> "", d |-> d, guide |-> existing[1]]
            ELSE create(populate_guide_layer_v0(AppendKid(d, <<>>, new_guide_layer_v0),
                                                << Len(d.kids) + 1 >>))
    IN  use(existing_guides_v0(d))

\* populating again without deleting
guide_reset_keep_v0(d, guide) == populate_guide_layer_v0(d, guide)

\* RatGuide.reset: every element of the guide layer that carries a guide
\* mode goes, then the layer is populated again
guide_reset_v0(d, guide) ==
    populate_guide_layer_v0(
        RemoveAll(d, SelectSeq(Desc(d, guide), LAMBDA q : NodeAt(d, q).gmode # "")),
        guide)

\* RatGuide.exclusion_for_src(src_id): the box of the first linked element
exclusion_for_src_v0(d, guide, src_id) ==
    LET linked == SelectSeq(Desc(d, guide), LAMBDA q : NodeAt(d, q).href = <<"#", src_id>>)
    IN  IF src_id = "" \/ linked = <<>> THEN NoBox ELSE bbox_v0(d, linked[1])

\* RatGuide.get_boundary, RatGuide.get_exclusions
get_boundary_v0(d, guide) ==
    compute_boundary_v0(
        d, SelectSeq(Desc(d, guide), LAMBDA q : NodeAt(d, q).gmode = "boundary"), d.box)

get_exclusions_v0(d, guide) ==
    LET res == guide_exclusion_elems(d, guide)
    IN  [i \in 1..Len(res) |-> bbox_v0(d, res[i])]

\* the first loop of HideRats.effect: the current box of each selected
\* element becomes an exclusion unless its linked rectangle overlaps it
RECURSIVE current_positions_v0(_, _, _, _)
current_positions_v0(d, guide, exclusions, rats) ==
    IF rats = <<>> THEN [d |-> d, exclusions |-> exclusions]
    ELSE LET step(bbox, prev) ==
                 IF prev = NoBox \/ ~overlaps(prev, bbox)
                 THEN current_positions_v0(add_exclusion_v0(d, guide, bbox, ""), guide,
                                           Append(exclusions, bbox), Tail(rats))
                 ELSE current_positions_v0(d, guide, exclusions, Tail(rats))
         IN  step(bbox_v0(d, Head(rats)),
                  exclusion_for_src_v0(d, guide, NodeAt(d, Head(rats)).id))

\* HideRats.effect up to the placement loop
effect_begin_v0(d, r, rats, restart) ==
    LET base == [Idle(r.ver, r.count + 1) EXCEPT !.restart = restart, !.sel = rats]
        crashed(dd) == [d |-> dd, run |-> [base EXCEPT !.status = "crashed"]]
        loops(guide, bounds, cur) ==
            IF rats # <<>> /\ bounds.tuple THEN crashed(cur.d)
            ELSE [d |-> cur.d,
                  run |-> [base EXCEPT !.pc = IF rats = <<>> THEN "idle" ELSE "placing",
                                       !.status = IF rats = <<>> THEN "ok" ELSE "running",
                                       !.rats = rats, !.guide = guide,
                                       !.scope = <<>>,
                                       !.exclusions = cur.exclusions,
                                       !.boundary = bounds.box]]
        placer(guide, rs) ==
            IF rs.crash # "" THEN crashed(rs.d)
            ELSE loops(guide, get_boundary_v0(rs.d, guide),
                       current_positions_v0(rs.d, guide, get_exclusions_v0(rs.d, guide), rats))
        reset(g) ==
            IF g.crash # "" THEN crashed(g.d)
            ELSE placer(g.guide, IF restart THEN guide_reset_v0(g.d, g.guide)
                                 ELSE [crash |-> "", d |-> g.d])
    IN  reset(RatGuide_init_v0(d))

\* Element.position = newpos: the offset joins the transform, which is
\* written back as "translate(%f,%f)"
set_position_v0(d, rat, newpos) ==
    LET move(bbox) ==
            SetAt(d, rat, [NodeAt(d, rat) EXCEPT
                             !.tf = << Fmt(@[1] + newpos[1] - bbox.xmin),
                                       Fmt(@[2] + newpos[2] - bbox.ymin) >>])
    IN  move(bbox_v0(d, rat))

\* one pass of the second loop: place_rat, then the new box is recorded in
\* the guide layer under the element's id and joins the placer's exclusions
effect_place_v0(d, r, res) ==
    LET left == Tail(r.rats)
        record(d1, bbox) ==
            [d |-> add_exclusion_v0(d1, r.guide, bbox, NodeAt(d1, Head(r.rats)).id),
             run |-> [r EXCEPT !.rats = left, !.placed = Append(@, Head(r.rats)),
                               !.exclusions = Append(@, bbox),
                               !.msgs = IF res.warned
                                        THEN Append(@, "Can not find non-excluded location")
                                        ELSE @,
                               !.pc = IF left = <<>> THEN "idle" ELSE "placing",
                               !.status = IF left = <<>> THEN "ok" ELSE "running"]]
        placed(d1) == record(d1, bbox_v0(d1, Head(r.rats)))
    IN  placed(set_position_v0(d, Head(r.rats), res.pos))

----------------------------------------------------------------------------
(* Documents and invocations *)

Layer(label, kids) == Elem("g", [NoAttrs EXCEPT !.layer = TRUE, !.label = label], kids)

\* a rat: a <use> of the rat symbol, one unit square, translated to (x, y)
Marker(id, x, y, u) ==
    Elem("use", [NoAttrs EXCEPT !.id = id, !.href = <<"#", "rat">>,
                                !.box = BoundingBox(0, u, 0, u), !.tf = <<x * u, y * u>>], <<>>)

\* The length of a map unit: the current revision is followed in whole
\* units, the 2019 revision in steps of which Res make one step of "%f".
Unit(ver) == IF ver = "v0" THEN Res ELSE 1

\* A course map: a ring layer with a permanent exclusion and a blind; the
\* blind holds two rats and a sublayer with one more rat; a fourth rat lies
\* outside any layer.
Doc1(u) ==
    Elem("svg", [NoAttrs EXCEPT !.box = BoundingBox(0, PageW * u, 0, PageH * u)],
      << Elem("defs", NoAttrs, << Elem("symbol", [NoAttrs EXCEPT !.id = "rat"], <<>>) >>),
         Layer(<< Word("Ring") >>,
           << Elem("rect", [NoAttrs EXCEPT !.place = "exclude",
                                           !.box = BoundingBox(0, 0, 0, u)], <<>>),
              Layer(<< Word("[o]"), Word("Blind"), Num(1) >>,
                    << Marker("r1", 0, 0, u), Marker("r2", 1, 0, u),
                       Layer(<< Word("Tubes") >>, << Marker("r3", 0, 0, u) >>) >>) >>),
         Marker("r4", 0, 0, u) >>)

\* what the user can select: in the 2019 revision the selection is passed
\* by id, so every selected element has one
Selectable(ver, d) ==
    SelectSeq(OutsideDefs(d),
              LAMBDA q : /\ NodeAt(d, q).tag \in {"use", "rect"}
                         /\ NodeAt(d, q).gmode = ""
                         /\ ver = "v0" => NodeAt(d, q).id # "")

\* the selections: up to MaxSel distinct elements, in any order
Selections(ver, d) ==
    { s \in SeqsUpTo(SeqToSet(Selectable(ver, d)), MaxSel) :
        \A i, j \in 1..Len(s) : i # j => s[i] # s[j] }

Init ==
    /\ rp = [pc |-> "off"]
    /\ \E ver \in {"v0", "v1"} :
          /\ doc = Doc1(Unit(ver))
          /\ before = Doc1(Unit(ver))
          /\ run = Idle(ver, 0)

\* HideRats().run() with a selection and the two options
Effect ==
    /\ run.ver = "v1" /\ run.pc = "idle" /\ run.count < MaxRuns
    /\ \E rats \in Selections("v1", doc), restart \in BOOLEAN, newblind \in BOOLEAN :
          \E o \in { effect_begin(doc, run, rats, restart, newblind) } :
              doc' = o.d /\ run' = o.run
    /\ before' = doc
    /\ UNCHANGED rp

\* the body of `for rat in rats`
Place ==
    /\ run.ver = "v1" /\ run.pc = "placing"
    /\ \E box \in { bounding_box(doc, Head(run.rats)) } :
          \E res \in random_position_results("v1", run.boundary, run.exclusions,
                                               width(box), height(box)) :
             \E o \in { effect_place(doc, run, res) } :
                doc' = o.d /\ run' = o.run
    /\ UNCHANGED <<rp, before>>

\* the 2019 HideRats.effect with a selection and the restart option
EffectOld ==
    /\ run.ver = "v0" /\ run.pc = "idle" /\ run.count < MaxRuns
    /\ \E rats \in Selections("v0", doc), restart \in BOOLEAN :
          \E o \in { effect_begin_v0(doc, run, rats, restart) } :
              doc' = o.d /\ run' = o.run
    /\ before' = doc
    /\ UNCHANGED rp

\* the body of its second `for rat in rats`
PlaceOld ==
    /\ run.ver = "v0" /\ run.pc = "placing"
    /\ \E box \in { bbox_v0(doc, Head(run.rats)) } :
          \E res \in random_position_results("v0", run.boundary, run.exclusions,
                                               width(box), height(box)) :
             \E o \in { effect_place_v0(doc, run, res) } :
                doc' = o.d /\ run' = o.run
    /\ UNCHANGED <<rp, before>>

\* Between invocations the user draws a rectangle into a guide layer; the
\* report of the last invocation is gone by then.
UserDraw ==
    /\ run.pc = "idle"
    /\ \E g \in SeqToSet(AllPaths(doc)), x \in {PageW - 1} :
          /\ NodeAt(doc, g).gmode = "layer"
          /\ Cardinality({ i \in 1..Len(NodeAt(doc, g).kids) :
                             NodeAt(doc, g).kids[i].gmode = "" }) < MaxDrawn
          /\ doc' = AppendKid(doc, g,
                       Elem("rect", [NoAttrs EXCEPT !.box =
                                BoundingBox(x * Unit(run.ver), (x + 1) * Unit(run.ver),
                                            0, Unit(run.ver))], <<>>))
    /\ run' = Idle(run.ver, run.count)
    /\ before' = doc'
    /\ UNCHANGED rp

Next == Effect \/ Place \/ EffectOld \/ PlaceOld \/ UserDraw

Spec == Init /\ [][Next]_vars

----------------------------------------------------------------------------
(* find_rat_layer and clone_rat_layer on their own, on course maps whose     *)
(* layers carry varied labels                                                *)

\* what a call left behind: the operation, its arguments and its outcome
Call(op) ==
    [pc |-> "done", op |-> op, sel |-> <<>>, layer |-> None, ok |-> TRUE,
     crash |-> "", msgs |-> <<>>, rats |-> <<>>, new |-> None,
     boxes |-> <<>>, result |-> NoBox]

NoCall == [Call("") EXCEPT !.pc = "idle"]

\* a <use> of a symbol other than the rat
UseOf(id, symbol, x, y) == [Marker(id, x, y, 1) EXCEPT !.href = <<"#", symbol>>]

\* layer labels ( <<>> : no inkscape:label attribute)
BlindLabels ==
    { << Word("[o]"), Word("Blind"), Num(1) >>,
      << Word("[o]"), Word("Blind"), Num(2) >>,
      << Word("[o|x]"), Word("Rats"), Num(5) >>,
      << Word("Blind"), Num(7) >>,
      << Word("[o]"), Word("Blind") >>,
      <<>> }

GroupLabels == { << Word("[o]"), Word("Bales"), Num(9) >>, <<>> }

\* A ring layer with two blinds labelled l1 and l2 (the first one hidden
\* when h) and a plain group labelled l3; rats, a tube and a bale in the
\* first blind, a rat and a drawn rectangle in the second, a rat in the
\* group and a rat outside any layer.
BlindDoc(l1, l2, l3, h) ==
    Elem("svg", [NoAttrs EXCEPT !.box = BoundingBox(0, PageW, 0, PageH)],
      << Elem("defs", NoAttrs,
              << Elem("symbol", [NoAttrs EXCEPT !.id = "rat"], <<>>),
                 Elem("symbol", [NoAttrs EXCEPT !.id = "pvc-tube"], <<>>),
                 Elem("symbol", [NoAttrs EXCEPT !.id = "bale"], <<>>) >>),
         Layer(<< Word("Ring") >>,
           << [Layer(l1, << Marker("r1", 0, 0, 1), UseOf("t1", "pvc-tube", 1, 0),
                            UseOf("b1", "bale", 2, 0) >>)
                  EXCEPT !.id = "blind", !.hidden = h],
              [Layer(l2, << Marker("r2", 1, 0, 1),
                            Elem("rect", [NoAttrs EXCEPT !.id = "box",
                                                         !.box = BoundingBox(0, 1, 0, 1)],
                                 <<>>) >>)
                  EXCEPT !.id = "other"],
              Elem("g", [NoAttrs EXCEPT !.id = "grp", !.label = l3],
                   << Marker("r3", 2, 0, 1) >>) >>),
         Marker("r4", 0, 0, 1) >>)

InitBlind ==
    /\ rp = [pc |-> "off"]
    /\ run = NoCall
    /\ \E l1 \in BlindLabels, l2 \in BlindLabels, l3 \in GroupLabels, h \in BOOLEAN :
          doc = BlindDoc(l1, l2, l3, h) /\ before = BlindDoc(l1, l2, l3, h)

\* find_rat_layer(self.svg.selection)
FindRatLayer ==
    /\ run.pc = "idle"
    /\ \E rats \in Selections("v1", doc) :
          \E frl \in { find_rat_layer(doc, rats) } :
              run' = [Call("find_rat_layer") EXCEPT
                         !.sel = rats, !.ok = frl.ok, !.layer = frl.layer,
                         !.msgs = IF frl.ok THEN <<>> ELSE << frl.msg >>]
    /\ before' = doc
    /\ UNCHANGED <<rp, doc>>

\* clone_rat_layer(rat_layer, rats) for the layer find_rat_layer returned
CloneRatLayer ==
    /\ run.pc = "idle"
    /\ \E rats \in Selections("v1", doc) :
          \E frl \in { find_rat_layer(doc, rats) } :
              /\ frl.ok
              /\ \E o \in { clone_rat_layer(doc, frl.layer, rats) } :
                    /\ doc' = o.d
                    /\ run' = [Call("clone_rat_layer") EXCEPT
                                  !.sel = rats, !.layer = frl.layer, !.crash = o.crash,
                                  !.new = o.layer, !.rats = o.rats]
    /\ before' = doc
    /\ UNCHANGED rp

NextBlind == FindRatLayer \/ CloneRatLayer

SpecBlind == InitBlind /\ [][NextBlind]_vars

----------------------------------------------------------------------------
(* find_exclusions on its own, on documents with references                  *)

\* an element flagged as a permanent exclusion, one unit wide at x
Excl(x) ==
    Elem("rect", [NoAttrs EXCEPT !.place = "exclude", !.box = BoundingBox(x, x + 1, 0, 1)],
         <<>>)

\* <use xlink:href=... transform="translate(0,dy)">
Ref(href, dy) == Elem("use", [NoAttrs EXCEPT !.href = href, !.tf = <<0, dy>>], <<>>)

Group(id, kids) == Elem("g", [NoAttrs EXCEPT !.id = id], kids)

\* the references of the first layer, of the group of the second layer and
\* of the pattern in <defs>: none, resolvable, dangling, without the leading
\* '#', to an id that two elements share, to a container of the reference
Hrefs1 == { <<>>, <<"#", "pat">>, <<"#", "nope">>, <<"", "pat">>, <<"#", "dup">>,
            <<"#", "A">> }
Hrefs2 == { <<>>, <<"#", "pat">>, <<"#", "grp">>, <<"#", "nope">>, <<"#", "A">> }
HrefsDefs == { <<>>, <<"#", "grp">>, <<"#", "dup">> }

\* <defs> with a pattern and a group, a layer A (hidden when hA) and a layer
\* B with a group; each holds a flagged element at an x of its own, and the
\* references move their targets to a y of their own
ExclDoc(hA, h1, h2, hd) ==
    Elem("svg", [NoAttrs EXCEPT !.box = BoundingBox(0, PageW, 0, PageH)],
      << Elem("defs", NoAttrs,
              << Group("pat", << Excl(0), Ref(hd, 40) >>),
                 Group("dup", << Excl(8) >>) >>),
         [Layer(<< Word("A") >>, << Excl(2), Ref(h1, 10) >>)
             EXCEPT !.id = "A", !.hidden = hA],
         [Layer(<< Word("B") >>,
                << Group("grp", << Excl(4), Ref(h2, 20) >>),
                   Group("dup", << Excl(6) >>) >>)
             EXCEPT !.id = "B"] >>)

InitExcl ==
    /\ rp = [pc |-> "off"]
    /\ run = NoCall
    /\ \E hA \in BOOLEAN, h1 \in Hrefs1, h2 \in Hrefs2, hd \in HrefsDefs :
          doc = ExclDoc(hA, h1, h2, hd) /\ before = ExclDoc(hA, h1, h2, hd)

\* find_exclusions(self.svg)
FindExclusions ==
    /\ run.pc = "idle"
    /\ \E o \in { find_exclusions(doc) } :
          run' = [Call("find_exclusions") EXCEPT
                     !.boxes = o.boxes, !.msgs = o.warns, !.crash = o.crash]
    /\ before' = doc
    /\ UNCHANGED <<rp, doc>>

\* the 2019 find_exclusions(self.document.getroot()); it reports nothing
FindExclusionsOld ==
    /\ run.pc = "idle"
    /\ \E o \in { find_exclusions_v0(doc, <<>>, Identity, Fuel(doc)) } :
          run' = [Call("find_exclusions_v0") EXCEPT !.boxes = o.boxes, !.crash = o.crash]
    /\ before' = doc
    /\ UNCHANGED <<rp, doc>>

NextExcl == FindExclusions \/ FindExclusionsOld

SpecExcl == InitExcl /\ [][NextExcl]_vars

----------------------------------------------------------------------------
(* The boundary accessors on their own *)

BoundaryBoxes ==
    { BoundingBox(0, 1, 0, 1), BoundingBox(1, 2, 0, 2), BoundingBox(2, 2, 1, 1),
      BoundingBox(0, 2, 0, 0) }

\* A course with the boundary elements ds and a guide layer, appended to the
\* root as the 2019 revision does, that holds the boundary rectangles gs
\* (the one the extension drew and the copies the user made of it, or none
\* after the user deleted it) before an exclusion rectangle.
BoundaryDoc(gs, ds) ==
    Elem("svg", [NoAttrs EXCEPT !.box = BoundingBox(0, PageW, 0, PageH)],
      << Elem("defs", NoAttrs, <<>>),
         Layer(<< Word("Ring") >>,
               [i \in 1..Len(ds) |->
                  Elem("rect", [NoAttrs EXCEPT !.place = "boundary", !.box = ds[i]], <<>>)]),
         [new_guide_layer_v0 EXCEPT !.kids =
             [i \in 1..Len(gs) |->
                Elem("rect", [NoAttrs EXCEPT !.gmode = "boundary", !.box = gs[i]], <<>>)]
             \o << Elem("rect", [NoAttrs EXCEPT !.gmode = "exclusion",
                                                !.box = BoundingBox(0, 0, 0, 0)], <<>>) >>] >>)

InitBoundary ==
    /\ rp = [pc |-> "off"]
    /\ run = NoCall
    /\ \E gs \in SeqsUpTo(BoundaryBoxes, MaxBoundaries),
          ds \in SeqsUpTo(BoundaryBoxes, MaxBoundaries) :
          doc = BoundaryDoc(gs, ds) /\ before = BoundaryDoc(gs, ds)

\* the 2019 RatGuide.get_boundary(); `ok` tells whether it returned a
\* BoundingBox
GetBoundaryOld ==
    /\ run.pc = "idle"
    /\ \E g \in SeqToSet(existing_guides_v0(doc)) :
          \E o \in { get_boundary_v0(doc, g) } :
              run' = [Call("get_boundary_v0") EXCEPT !.ok = ~o.tuple, !.result = o.box]
    /\ before' = doc
    /\ UNCHANGED <<rp, doc>>

\* get_rat_boundary(self.svg)
GetRatBoundary ==
    /\ run.pc = "idle"
    /\ run' = [Call("get_rat_boundary") EXCEPT !.result = get_rat_boundary(doc)]
    /\ before' = doc
    /\ UNCHANGED <<rp, doc>>

NextBoundary == GetBoundaryOld \/ GetRatBoundary

SpecBoundary == InitBoundary /\ [][NextBoundary]_vars

----------------------------------------------------------------------------
(* Reading the guide layer: the 2019 RatGuide.get_exclusions and the         *)
(* construction of the current RatGuide on an existing guide layer           *)

GuideKinds == {"exclusion", "boundary", "notation", "drawn", "group"}

\* The i-th child of a guide layer, by kind: a rectangle with the guide mode
\* of that name, a rectangle the user drew (no guide mode), or a group the
\* user made that holds a drawn rectangle and an exclusion rectangle.  The
\* x of a box tells the child, its y the element inside the child.
GuideKid(kind, i) ==
    IF kind = "group"
    THEN Elem("g", NoAttrs,
              << Elem("rect", [NoAttrs EXCEPT !.box = BoundingBox(i, i + 1, 2, 3)], <<>>),
                 Elem("rect", [NoAttrs EXCEPT !.gmode = "exclusion",
                                              !.box = BoundingBox(i, i + 1, 4, 5)], <<>>) >>)
    ELSE Elem("rect", [NoAttrs EXCEPT !.gmode = IF kind = "drawn" THEN "" ELSE kind,
                                      !.box = BoundingBox(i, i + 1, 0, 1)], <<>>)

\* a ring layer whose only child is the guide layer
GuideDoc(kinds) ==
    Elem("svg", [NoAttrs EXCEPT !.box = BoundingBox(0, PageW, 0, PageH)],
      << Elem("defs", NoAttrs, <<>>),
         Layer(<< Word("Ring") >>,
               << [new_guide_layer EXCEPT !.kids =
                      [i \in 1..Len(kinds) |-> GuideKid(kinds[i], i)]] >>) >>)

\* the permanent exclusions handed to RatGuide
PermanentLists == { <<>>, << BoundingBox(0, 0, 8, 9) >>,
                    << BoundingBox(0, 0, 8, 9), BoundingBox(1, 1, 8, 9) >> }

InitGuide ==
    /\ rp = [pc |-> "off"]
    /\ run = NoCall
    /\ \E kinds \in SeqsUpTo(GuideKinds, MaxGuideKids) :
          doc = GuideDoc(kinds) /\ before = GuideDoc(kinds)

\* the 2019 RatGuide.get_exclusions()
GetExclusionsOld ==
    /\ run.pc = "idle"
    /\ \E g \in SeqToSet(existing_guides_v0(doc)) :
          run' = [Call("get_exclusions_v0") EXCEPT
                     !.layer = g, !.boxes = get_exclusions_v0(doc, g)]
    /\ before' = doc
    /\ UNCHANGED <<rp, doc>>

\* RatGuide(exclusions, parent_layer) for the ring layer; `result` keeps the
\* exclusions passed in
NewRatGuide ==
    /\ run.pc = "idle"
    /\ \E perm \in PermanentLists :
          \E o \in { RatGuide_init(doc, perm, <<2>>) } :
              /\ doc' = o.d
              /\ run' = [Call("RatGuide") EXCEPT
                            !.layer = o.guide, !.crash = o.crash,
                            !.boxes = o.exclusions, !.result = perm]
    /\ before' = doc
    /\ UNCHANGED rp

NextGuide == GetExclusionsOld \/ NewRatGuide

SpecGuide == InitGuide /\ [][NextGuide]_vars

----------------------------------------------------------------------------
(* Moving a marker under transforms that are not all translations:          *)
(* RatPlacer.place_rat and the 2019 Element.position setter.  A transform   *)
(* is p |-> s * p + (dx, dy) with s = 1 (a translation) or s = -1 (a        *)
(* rotation by 180 degrees followed by a translation).                      *)

Tfm(s, dx, dy) == [s |-> s, dx |-> dx, dy |-> dy]

\* x @ y: y is applied first
tfm_compose(x, y) == Tfm(x.s * y.s, x.s * y.dx + x.dx, x.s * y.dy + x.dy)

\* Transform.__neg__ / Transform.inverse
tfm_inverse(t) == Tfm(t.s, -(t.s * t.dx), -(t.s * t.dy))

apply_to_point(t, p) == << t.s * p[1] + t.dx, t.s * p[2] + t.dy >>

\* Transform * Offset: the linear part only
apply_to_offset(t, o) == << t.s * o[1], t.s * o[2] >>

\* Transform.add_translate(v): self @= translate(v), as each function of a
\* transform attribute "f1(..) f2(..)" is added after the ones before it
tfm_add_translate(t, v) == tfm_compose(t, Tfm(1, v[1], v[2]))

\* Transform.offset(v) * t
offset_times(v, t) == tfm_compose(Tfm(1, v[1], v[2]), t)

\* str(Transform) of the 2019 revision writes the numbers with "%f"
format_v0(t) == Tfm(t.s, Fmt(t.dx), Fmt(t.dy))

tfm_box(t, b) ==
    IF t.s = 1
    THEN BoundingBox(b.xmin + t.dx, b.xmax + t.dx, b.ymin + t.dy, b.ymax + t.dy)
    ELSE BoundingBox(t.dx - b.xmax, t.dx - b.xmin, t.dy - b.ymax, t.dy - b.ymin)

RECURSIVE chain_transform(_)
\* composed_transform() of the marker's parent: chain[1] is the outermost
chain_transform(chain) ==
    IF chain = <<>> THEN Tfm(1, 0, 0)
    ELSE tfm_compose(chain_transform(SubSeq(chain, 1, Len(chain) - 1)), chain[Len(chain)])

\* rat.bounding_box(parent_transform)
marker_bounding_box(m, parent_transform) ==
    tfm_box(tfm_compose(parent_transform, m.tf), m.box)

\* RatPlacer.place_rat once random_position has returned newpos
RatPlacer_place_rat(m, newpos) ==
    LET move(inverse_parent_transform, rat_bbox) ==
            LET p2 == apply_to_point(inverse_parent_transform, newpos)
                p1 == apply_to_point(inverse_parent_transform,
                                     << rat_bbox.xmin, rat_bbox.ymin >>)
            IN  [m EXCEPT !.tf = tfm_add_translate(@, << p2[1] - p1[1], p2[2] - p1[2] >>)]
        measure(parent_transform) ==
            move(tfm_inverse(parent_transform), marker_bounding_box(m, parent_transform))
    IN  measure(chain_transform(m.chain))

\* Element.position = newpos (2019)
Element_set_position(m, newpos) ==
    LET set(parent_transform, bbox) ==
            LET offset == << newpos[1] - bbox.xmin, newpos[2] - bbox.ymin >>
                local_offset == apply_to_offset(tfm_inverse(parent_transform), offset)
            IN  [m EXCEPT !.tf = format_v0(offset_times(local_offset, @))]
        measure(parent_transform) ==
            set(parent_transform, marker_bounding_box(m, parent_transform))
    IN  measure(chain_transform(m.chain))

\* the transforms of a marker and of its ancestors, u the length of a map
\* unit
Tfms(u) == { Tfm(s, dx, dy) : s \in {1, -1}, dx \in {0, u}, dy \in {0, u} }

InitMove ==
    /\ rp = [pc |-> "off"]
    /\ run = NoCall
    /\ \E ver \in {"v0", "v1"} :
         \E chain \in SeqsUpTo(Tfms(Unit(ver)), MaxChain), tf \in Tfms(Unit(ver)) :
            /\ doc = [ver |-> ver, chain |-> chain, tf |-> tf,
                      box |-> BoundingBox(0, Unit(ver), 0, 2 * Unit(ver))]
            /\ before = doc

\* the positions random_position returns
MovePositions == (0..Res) \X (0..Res)

PlaceRat ==
    /\ run.pc = "idle" /\ doc.ver = "v1"
    /\ \E newpos \in MovePositions :
          /\ doc' = RatPlacer_place_rat(doc, newpos)
          /\ run' = [Call("place_rat") EXCEPT !.result = newpos]
    /\ before' = doc
    /\ UNCHANGED rp

SetPosition ==
    /\ run.pc = "idle" /\ doc.ver = "v0"
    /\ \E newpos \in MovePositions :
          /\ doc' = Element_set_position(doc, newpos)
          /\ run' = [Call("position") EXCEPT !.result = newpos]
    /\ before' = doc
    /\ UNCHANGED rp

NextMove == PlaceRat \/ SetPosition

SpecMove == InitMove /\ [][NextMove]_vars

----------------------------------------------------------------------------
(* HideRats on a course map whose blinds are top-level layers *)

\* A map without a ring layer around its first blind: the blind with two
\* rats is a child of the root; a second blind lies inside a ring layer.
TopDoc ==
    Elem("svg", [NoAttrs EXCEPT !.box = BoundingBox(0, PageW, 0, PageH)],
      << Elem("defs", NoAttrs, << Elem("symbol", [NoAttrs EXCEPT !.id = "rat"], <<>>) >>),
         Layer(<< Word("[o]"), Word("Blind"), Num(1) >>,
               << Marker("r1", 0, 0, 1), Marker("r2", 1, 0, 1) >>),
         Layer(<< Word("Ring") >>,
               << Layer(<< Word("[o]"), Word("Blind"), Num(1) >>,
                        << Marker("r3", 0, 0, 1) >>) >>) >>)

InitTop ==
    /\ rp = [pc |-> "off"]
    /\ doc = TopDoc
    /\ before = TopDoc
    /\ run = Idle("v1", 0)

NextTop == Effect \/ Place

SpecTop == InitTop /\ [][NextTop]_vars

----------------------------------------------------------------------------
(* temporary_visibility (src/inkscape_barnhunt/bh-create-inset.py) and the  *)
(* 2019 TemporaryVisibility (src/bh-create-inset.py).  A style attribute is *)
(* absent or a list of declarations; `doc` maps the elements to their style *)
(* attributes.                                                              *)

Decl(p, v) == [prop |-> p, value |-> v]

NoStyle == [present |-> FALSE, decls |-> <<>>]
StyleAttr(decls) == [present |-> TRUE, decls |-> decls]

\* style[prop] = value on the parsed declarations: a declaration of the
\* property is replaced where it stands, a new one goes last
RECURSIVE SetProp(_, _, _)
SetProp(decls, p, v) ==
    IF decls = <<>> THEN << Decl(p, v) >>
    ELSE IF Head(decls).prop = p THEN << Decl(p, v) >> \o Tail(decls)
    ELSE << Head(decls) >> \o SetProp(Tail(decls), p, v)

\* Style(string): of two declarations of one property the later one counts
RECURSIVE ParseStyle(_)
ParseStyle(decls) ==
    IF decls = <<>> THEN <<>>
    ELSE SetProp(ParseStyle(SubSeq(decls, 1, Len(decls) - 1)),
                 decls[Len(decls)].prop, decls[Len(decls)].value)

\* the style attribute after style["display"] = "inline" / "none"
with_display(style, visibility) ==
    StyleAttr(SetProp(ParseStyle(style.decls), "display",
                      IF visibility THEN "inline" ELSE "none"))

\* set_visibility(elem, visibility): the style found is saved, then changed
set_visibility(styles, saved, elem, visibility) ==
    [styles |-> [styles EXCEPT ![elem] = with_display(@, visibility)],
     saved  |-> Append(saved, << elem, styles[elem] >>)]

\* TemporaryVisibility.__call__ (2019): an element without style, or with an
\* empty one, is left alone when it is to be shown
TemporaryVisibility_call(styles, saved, elem, visibility) ==
    IF styles[elem].decls # <<>> \/ ~visibility
    THEN [styles |-> [styles EXCEPT ![elem] = with_display(@, visibility)],
          saved  |-> Append(saved, << elem, styles[elem] >>)]
    ELSE [styles |-> styles, saved |-> saved]

\* an undo that puts the saved styles back in the order they were saved
RECURSIVE restore_forward(_, _)
restore_forward(styles, saved) ==
    IF saved = <<>> THEN styles
    ELSE restore_forward([styles EXCEPT ![Head(saved)[1]] = Head(saved)[2]], Tail(saved))

\* the finally clause: for elem, style in reversed(saved): elem.set("style",
\* style), which removes the attribute when the saved style is None
RECURSIVE restore(_, _)
restore(styles, saved) ==
    IF saved = <<>> THEN styles
    ELSE restore([styles EXCEPT ![saved[Len(saved)][1]] = saved[Len(saved)][2]],
                 SubSeq(saved, 1, Len(saved) - 1))

\* TemporaryVisibility.restore (2019): the attribute is popped when the saved
\* style is None, set otherwise
RECURSIVE TemporaryVisibility_restore(_, _)
TemporaryVisibility_restore(styles, saved) ==
    IF saved = <<>> THEN styles
    ELSE LET last == saved[Len(saved)]
         IN  TemporaryVisibility_restore(
                 [styles EXCEPT ![last[1]] = IF last[2].present THEN last[2] ELSE NoStyle],
                 SubSeq(saved, 1, Len(saved) - 1))

\* the inset image and a layer
VisElems == {"image", "layer"}

\* style attributes an element can have; the empty attribute is followed in
\* the 2019 revision, which tests for it
VisStyles(ver) ==
    { NoStyle,
      StyleAttr(<< Decl("display", "none") >>),
      StyleAttr(<< Decl("fill", "red") >>),
      StyleAttr(<< Decl("display", "inline"), Decl("fill", "red"), Decl("display", "none") >>) }
    \cup (IF ver = "v0" THEN { StyleAttr(<<>>) } ELSE {})

OutOfContext(ver) == [pc |-> "out", ver |-> ver, saved |-> <<>>, calls |-> 0, exit |-> ""]

InitVis ==
    /\ rp = [pc |-> "off"]
    /\ \E ver \in {"v0", "v1"} :
          /\ run = OutOfContext(ver)
          /\ \E st \in [VisElems -> VisStyles(ver)] : doc = st /\ before = st

\* with temporary_visibility() as set_visibility:
EnterContext ==
    /\ run.pc = "out" /\ run.exit = ""
    /\ run' = [run EXCEPT !.pc = "in"]
    /\ before' = doc
    /\ UNCHANGED <<rp, doc>>

SetVisibility ==
    /\ run.pc = "in" /\ run.calls < MaxCalls
    /\ \E elem \in VisElems, visibility \in BOOLEAN :
          \E o \in { IF run.ver = "v1"
                     THEN set_visibility(doc, run.saved, elem, visibility)
                     ELSE TemporaryVisibility_call(doc, run.saved, elem, visibility) } :
              /\ doc' = o.styles
              /\ run' = [run EXCEPT !.saved = o.saved, !.calls = @ + 1]
    /\ UNCHANGED <<rp, before>>

\* The context is left: the block ends, an exception passes through it, or
\* sys.exit() is called inside it (SystemExit passes through it).  In each
\* case the finally clause (2019: __exit__) runs.
ExitContext ==
    /\ run.pc = "in"
    /\ \E path \in {"normal", "exception", "exit"} :
          run' = [run EXCEPT !.pc = "out", !.exit = path, !.saved = <<>>]
    /\ doc' = IF run.ver = "v1" THEN restore(doc, run.saved)
              ELSE TemporaryVisibility_restore(doc, run.saved)
    /\ UNCHANGED <<rp, before>>

NextVis == EnterContext \/ SetVisibility \/ ExitContext

SpecVis == InitVis /\ [][NextVis]_vars

----------------------------------------------------------------------------
(* is_appimage_executable and run (src/inkscape_barnhunt/bh-create-inset.py) *)
(* `doc` is the environment of the process: APPDIR, APPIMAGE and what        *)
(* shutil.which finds.  A path is a drive and a list of names.               *)

PathOf(drive, names) == [drive |-> drive, names |-> names]

\* os.environ without the variable, shutil.which() returning None
Unset == [drive |-> "unset", names |-> <<>>]

\* APPDIR=""
EmptyValue == [drive |-> "empty", names |-> <<>>]

RECURSIVE CommonLen(_, _)
CommonLen(a, b) ==
    IF a = <<>> \/ b = <<>> \/ Head(a) # Head(b) THEN 0
    ELSE 1 + CommonLen(Tail(a), Tail(b))

\* os.path.relpath(path, start): ".." for every name of start below the
\* common directory, then the rest of path; ValueError across drives
relpath(path, start) ==
    IF path.drive # start.drive THEN [error |-> "ValueError", names |-> <<>>]
    ELSE LET i == CommonLen(path.names, start.names)
             rel == [k \in 1..(Len(start.names) - i) |-> ".."]
                      \o SubSeq(path.names, i + 1, Len(path.names))
         IN  [error |-> "", names |-> IF rel = <<>> THEN << "." >> ELSE rel]

\* relpath.startswith(os.pardir + sep)
starts_with_pardir(names) == Len(names) >= 2 /\ names[1] = ".."

\* is_appimage_executable(prog): the value returned, or the exception raised
\* when the last line reads relpath although the if-block was not entered
is_appimage_executable(env) ==
    LET executable == env.which
        appdir == IF env.APPDIR = Unset THEN EmptyValue ELSE env.APPDIR
        answer(rel) ==
            IF rel.error # "" THEN [crash |-> "", result |-> FALSE]
            ELSE [crash |-> "", result |-> ~starts_with_pardir(rel.names)]
    IN  IF executable = Unset THEN [crash |-> "", result |-> FALSE]
        ELSE IF appdir # EmptyValue /\ env.APPIMAGE
        THEN answer(relpath(executable, appdir))
        ELSE [crash |-> "NameError", result |-> FALSE]

\* run(cmd, missing_ok=...): what becomes of the command
run_cmd(env, missing_ok, ld_linux, fails) ==
    LET start(mangled) ==
            IF env.which = Unset THEN "FileNotFoundError"
            ELSE IF fails THEN "sys.exit(1)"
            ELSE IF mangled THEN "ran through ld-linux" ELSE "ran"
        mangle(a) ==
            IF a.crash # "" THEN a.crash
            ELSE IF a.result
            THEN (IF ld_linux THEN start(TRUE) ELSE "RuntimeError")
            ELSE start(FALSE)
    IN  IF missing_ok /\ env.which = Unset THEN "warned"
        ELSE mangle(is_appimage_executable(env))

Drives == {"", "D:"}
DirNames == {"usr", "bin"}

AppCall(op) == [pc |-> "done", op |-> op, crash |-> "", result |-> FALSE, outcome |-> ""]

\* an executable is a file: it is neither the AppImage directory nor a
\* directory above it
InitApp ==
    /\ rp = [pc |-> "off"]
    /\ run = [AppCall("") EXCEPT !.pc = "idle"]
    /\ \E appdir \in {Unset, EmptyValue}
                       \cup { PathOf("", n) : n \in SeqsUpTo(DirNames, MaxDepth) },
          appimage \in BOOLEAN,
          which \in {Unset} \cup { PathOf(d, n) : d \in Drives,
                                    n \in SeqsUpTo(DirNames, MaxDepth + 1) \ {<<>>} } :
          /\ (which # Unset /\ appdir \notin {Unset, EmptyValue})
                => ~IsPrefix(which.names, appdir.names)
          /\ doc = [APPDIR |-> appdir, APPIMAGE |-> appimage, which |-> which]
          /\ before = doc

IsAppimageExecutable ==
    /\ run.pc = "idle"
    /\ \E a \in { is_appimage_executable(doc) } :
          run' = [AppCall("is_appimage_executable") EXCEPT
                     !.crash = a.crash, !.result = a.result]
    /\ UNCHANGED <<rp, doc, before>>

RunCmd ==
    /\ run.pc = "idle"
    /\ \E missing_ok \in BOOLEAN, ld_linux \in BOOLEAN, fails \in BOOLEAN :
          run' = [AppCall("run") EXCEPT
                     !.outcome = run_cmd(doc, missing_ok, ld_linux, fails)]
    /\ UNCHANGED <<rp, doc, before>>

NextApp == IsAppimageExecutable \/ RunCmd

SpecApp == InitApp /\ [][NextApp]_vars

----------------------------------------------------------------------------
(* load_symbols (src/inkex_bh/update_symbols.py).  `doc` is the directory   *)
(* of the symbol set: its svg files in the order iterdir() lists them.  A   *)
(* string is the list of its character codes.                               *)

RECURSIVE Digits(_)
Digits(n) == IF n < 10 THEN << 48 + n >> ELSE Digits(n \div 10) \o << 48 + (n % 10) >>

Colon == << 58 >>

\* a < b for strings
RECURSIVE LexLess(_, _)
LexLess(a, b) ==
    IF b = <<>> THEN FALSE
    ELSE IF a = <<>> THEN TRUE
    ELSE IF Head(a) # Head(b) THEN Head(a) < Head(b)
    ELSE LexLess(Tail(a), Tail(b))

\* _symbol_scale: "<n>:<m>" for a file named ...-<n>to<m>.svg, else "48:1"
symbol_scale(svg_path) ==
    IF svg_path.scale = <<>> THEN Digits(48) \o Colon \o Digits(1)
    ELSE Digits(svg_path.scale[1]) \o Colon \o Digits(svg_path.scale[2])

\* _has_unscoped_ids: some element inside the symbol has an id that does
\* not start with "<symbol id>:"
has_unscoped_ids(symbol) ==
    \E k \in 1..Len(symbol.inner) : symbol.inner[k].scope # symbol.id

\* _load_symbols_from_svg: the symbols kept from one file, as <<id, place in
\* the file>>, and the warnings
RECURSIVE load_symbols_from_svg(_, _, _)
load_symbols_from_svg(svg, k, acc) ==
    IF k > Len(svg.symbols) THEN acc
    ELSE LET symbol == svg.symbols[k]
         IN  IF has_unscoped_ids(symbol)
             THEN load_symbols_from_svg(svg, k + 1,
                      [acc EXCEPT !.msgs = Append(@, <<"unscoped id(s)", symbol.id>>)])
             ELSE IF \E e \in SeqToSet(acc.symbols) : e[1] = symbol.id
             THEN load_symbols_from_svg(svg, k + 1,
                      [acc EXCEPT !.msgs = Append(@, <<"duplicate id", symbol.id>>)])
             ELSE load_symbols_from_svg(svg, k + 1,
                      [acc EXCEPT !.symbols = Append(@, << symbol.id, k >>)])

\* a sort key that looks at the scale only
scale_only(svg_path) == [rank |-> 1, scale |-> symbol_scale(svg_path)]

\* nonstandard_scales_last: 48:1 first, then by the scale string
nonstandard_scales_last(svg_path) ==
    [rank |-> IF symbol_scale(svg_path) = Digits(48) \o Colon \o Digits(1) THEN 0 ELSE 1,
     scale |-> symbol_scale(svg_path)]

KeyLess(a, b) == a.rank < b.rank \/ (a.rank = b.rank /\ LexLess(a.scale, b.scale))

\* sorted(svg_paths, key=nonstandard_scales_last) on the places 1..n of the
\* files in the directory listing; the sort is stable
RECURSIVE sorted_paths(_, _)
sorted_paths(files, n) ==
    IF n = 0 THEN <<>>
    ELSE LET before_n == sorted_paths(files, n - 1)
             stay == SelectSeq(before_n,
                        LAMBDA i : ~KeyLess(nonstandard_scales_last(files[n]),
                                            nonstandard_scales_last(files[i])))
             move == SelectSeq(before_n,
                        LAMBDA i : KeyLess(nonstandard_scales_last(files[n]),
                                           nonstandard_scales_last(files[i])))
         IN  stay \o << n >> \o move

\* the loop of load_symbols over the sorted files: symbols_by_id as a set of
\* [id, file, place], and the warnings
RECURSIVE load_sorted(_, _, _)
load_sorted(files, order, acc) ==
    IF order = <<>> THEN acc
    ELSE LET f == Head(order)
             one == load_symbols_from_svg(files[f], 1, [symbols |-> <<>>, msgs |-> <<>>])
             ids == { one.symbols[k][1] : k \in 1..Len(one.symbols) }
             got == [acc EXCEPT !.msgs = @ \o one.msgs]
         IN  IF \E e \in acc.symbols : e.id \in ids
             THEN load_sorted(files, Tail(order),
                      [got EXCEPT !.msgs = Append(@, <<"duplicate symbol ids, skipping", f>>)])
             ELSE load_sorted(files, Tail(order),
                      [got EXCEPT !.symbols = @ \cup
                          { [id |-> one.symbols[k][1], file |-> f, place |-> one.symbols[k][2]] :
                              k \in 1..Len(one.symbols) }])

load_symbols(files) ==
    load_sorted(files, sorted_paths(files, Len(files)), [symbols |-> {}, msgs |-> <<>>])

Inner(scope) == [scope |-> scope]
Symbol(id, inner) == [id |-> id, inner |-> inner]

\* symbols of a library file: one with scoped inner ids, one without inner
\* ids, one with an inner id of its own
SymbolKinds ==
    { Symbol("x", << Inner("x") >>), Symbol("y", <<>>), Symbol("x", << Inner("") >>) }

\* file names: without scale, ...-24to1.svg, ...-120to1.svg
NamedScales == { <<>>, <<24, 1>>, <<120, 1>> }

SvgFiles == { [scale |-> sc, symbols |-> syms] :
                 sc \in NamedScales, syms \in SeqsUpTo(SymbolKinds, MaxSyms) }

Loaded(op) == [pc |-> "done", op |-> op, symbols |-> {}, msgs |-> <<>>]

InitLoad ==
    /\ rp = [pc |-> "off"]
    /\ run = [Loaded("") EXCEPT !.pc = "idle"]
    /\ \E files \in SeqsUpTo(SvgFiles, MaxFiles) : doc = files /\ before = files

LoadSymbols ==
    /\ run.pc = "idle"
    /\ \E o \in { load_symbols(doc) } :
          run' = [Loaded("load_symbols") EXCEPT !.symbols = o.symbols, !.msgs = o.msgs]
    /\ UNCHANGED <<rp, doc, before>>

NextLoad == LoadSymbols

SpecLoad == InitLoad /\ [][NextLoad]_vars

----------------------------------------------------------------------------
(* update_symbols (src/inkex_bh/update_symbols.py) on drawings whose        *)
(* symbols lie in the defs, in a group inside the defs, in a second defs    *)
(* element and in a defs element inside the drawing's body                  *)

SymbolIds == {"sym1", "sym2", "sym3"}

\* the id of the element inside a symbol: "<symbol id>:old" in the drawing,
\* "<symbol id>:new" in the library
InnerId(id, rev) ==
    IF rev = "old"
    THEN (CASE id = "sym1" -> "sym1:old" [] id = "sym2" -> "sym2:old" [] OTHER -> "sym3:old")
    ELSE (CASE id = "sym1" -> "sym1:new" [] id = "sym2" -> "sym2:new" [] OTHER -> "sym3:new")

SymbolElem(id, rev) ==
    Elem("symbol", [NoAttrs EXCEPT !.id = id],
         << Elem("g", [NoAttrs EXCEPT !.id = InnerId(id, rev)], <<>>) >>)

\* every symbol of the drawing, at any depth below defs
symbol_descendants(d, defs) ==
    SelectSeq(Desc(d, defs), LAMBDA q : NodeAt(d, q).tag = "symbol" /\ NodeAt(d, q).id # "")

\* defs.findall("./svg:symbol[@id]")
symbol_children(d, defs) ==
    SelectSeq(Desc(d, defs), LAMBDA q : /\ Len(q) = Len(defs) + 1
                                        /\ NodeAt(d, q).tag = "symbol"
                                        /\ NodeAt(d, q).id # "")

\* svg.findone("svg:defs"): the first defs child of the root, or None
findone_defs(d) ==
    LET hits == SelectSeq([i \in 1..Len(d.kids) |-> << i >>],
                          LAMBDA q : NodeAt(d, q).tag = "defs")
    IN  IF hits = <<>> THEN None ELSE hits[1]

\* the loop of update_symbols; `symbols` is the set of the library's keys,
\* the library's symbol for a key is SymbolElem(key, "new")
RECURSIVE replace_symbols(_, _, _, _)
replace_symbols(d, syms, symbols, msgs) ==
    IF syms = <<>> THEN [crash |-> "", d |-> d, msgs |-> msgs]
    ELSE LET sym == NodeAt(d, Head(syms))
         IN  IF sym.id \notin symbols
             THEN replace_symbols(d, Tail(syms), symbols, msgs)
             ELSE replace_symbols(SetAt(d, Head(syms), SymbolElem(sym.id, "new")),
                                  Tail(syms), symbols, Append(msgs, <<"Updating", sym.id>>))

\* update_symbols(svg, symbols); without a defs element defs is None and
\* defs.findall raises
update_symbols(d, symbols) ==
    LET defs == findone_defs(d)
    IN  IF defs = None THEN [crash |-> "AttributeError", d |-> d, msgs |-> <<>>]
        ELSE replace_symbols(d, symbol_children(d, defs), symbols, <<>>)

\* where a symbol of the drawing lies
SymbolPlaces == {"none", "defs", "group in defs", "second defs", "body"}

SymbolsAt(place, where) ==
    LET ids == << "sym1", "sym2", "sym3" >>
        at == SelectSeq(ids, LAMBDA id : place[id] = where)
    IN  [i \in 1..Len(at) |-> SymbolElem(at[i], "old")]

\* A drawing: its defs (a symbol without id, the symbols placed there and a
\* group with symbols), a second defs element when symbols are placed
\* there, and the body with a defs element inside a group.  `bare` drawings
\* have no defs element of their own when nothing is placed in it.
Drawing(place, bare) ==
    LET first == IF bare /\ SymbolsAt(place, "defs") = <<>>
                         /\ SymbolsAt(place, "group in defs") = <<>>
                 THEN <<>>
                 ELSE << Elem("defs", NoAttrs,
                              << Elem("symbol", NoAttrs, <<>>) >>
                                \o SymbolsAt(place, "defs")
                                \o << Elem("g", NoAttrs, SymbolsAt(place, "group in defs")) >>) >>
        second == IF SymbolsAt(place, "second defs") = <<>> THEN <<>>
                  ELSE << Elem("defs", NoAttrs, SymbolsAt(place, "second defs")) >>
        body == << Elem("g", NoAttrs,
                        << Elem("defs", NoAttrs, SymbolsAt(place, "body")) >>) >>
    IN  Elem("svg", NoAttrs, first \o second \o body)

Updated(op) == [pc |-> "done", op |-> op, symbols |-> {}, crash |-> "", msgs |-> <<>>]

InitUpdate ==
    /\ rp = [pc |-> "off"]
    /\ run = [Updated("") EXCEPT !.pc = "idle"]
    /\ \E place \in [SymbolIds -> SymbolPlaces], bare \in BOOLEAN :
          doc = Drawing(place, bare) /\ before = Drawing(place, bare)

UpdateSymbols ==
    /\ run.pc = "idle"
    /\ \E symbols \in SUBSET SymbolIds :
          \E o \in { update_symbols(doc, symbols) } :
              /\ doc' = o.d
              /\ run' = [Updated("update_symbols") EXCEPT
                            !.symbols = symbols, !.crash = o.crash, !.msgs = o.msgs]
    /\ before' = doc
    /\ UNCHANGED rp

NextUpdate == UpdateSymbols

SpecUpdate == InitUpdate /\ [][NextUpdate]_vars

----------------------------------------------------------------------------
(* Calls of random_position on their own *)

NoDoc == Elem("svg", NoAttrs, <<>>)

InitPlacer ==
    /\ doc = NoDoc /\ before = NoDoc /\ run = Idle("none", 0)
    /\ \/ \E ver \in {"v0", "v1"}, b \in ValidBoxes, w \in 0..MaxDim, h \in 0..MaxDim,
          e \in SeqsUpTo(ValidBoxes, MaxExcl), t \in 1..MaxTriesSmall :
          rp = Frame(ver, b, e, w, h, t)
       \/ \E ver \in {"v0", "v1"}, ex \in {ExampleFeasible, ExampleFull} :
          rp = Frame(ver, ex.boundary, ex.exclusions, ex.w, ex.h, DefaultMaxTries)

NextPlacer == RPSample /\ UNCHANGED <<doc, run, before>>

SpecPlacer == InitPlacer /\ [][NextPlacer]_vars

----------------------------------------------------------------------------
(* Properties of random_position *)

\* Two closed rectangles with integer corners have a point in common.
SharePoint(a, b) ==
    \E px \in a.xmin..a.xmax, py \in a.ymin..a.ymax :
        /\ b.xmin <= px /\ px <= b.xmax
        /\ b.ymin <= py /\ py <= b.ymax

\* The box of the marker's size at the last candidate drawn.
LastCandidate == BoundingBox(rp.x, rp.x + rp.w, rp.y, rp.y + rp.h)

LastCandidateHit ==
    \E i \in 1..Len(rp.exclusions) : SharePoint(LastCandidate, rp.exclusions[i])

IsExample(ex) ==
    /\ rp.boundary = ex.boundary /\ rp.exclusions = ex.exclusions
    /\ rp.w = ex.w /\ rp.h = ex.h /\ rp.max_tries = DefaultMaxTries

\* C2: a position returned without the exhaustion warning puts the marker's
\* box where it shares no point with any exclusion (touching counts as
\* overlapping); in the 100x100 example (here in units of ten) such a
\* position has x >= 90.
C2_ReturnedWithoutWarningIsClear ==
    (rp.pc = "done" /\ rp.warned = <<>>) =>
        /\ \A i \in 1..Len(rp.exclusions) :
              ~SharePoint(BoundingBox(rp.ret[1], rp.ret[1] + rp.w,
                                      rp.ret[2], rp.ret[2] + rp.h),
                          rp.exclusions[i])
        /\ IsExample(ExampleFeasible) => rp.ret[1] >= 9

C2_Witness ==
    /\ rp.ver = "v0" /\ rp.pc = "done" /\ rp.warned = <<>>
    /\ rp.n >= 2 /\ rp.exclusions # <<>>

\* C3: random_position draws at most max_tries candidates; it goes on drawing
\* only after a rejected candidate; when every candidate was rejected it
\* warns exactly once, naming the number of tries, and returns the last
\* candidate; when a candidate is accepted it returns it without a warning.
C3_BoundedTriesOneWarning ==
    /\ rp.n <= rp.max_tries
    /\ rp.pc = "loop" =>
          /\ rp.n < rp.max_tries
          /\ rp.warned = <<>>
          /\ rp.n > 0 => LastCandidateHit
    /\ rp.pc = "done" =>
          /\ rp.n >= 1
          /\ rp.ret = <<rp.x, rp.y>>
          /\ LastCandidateHit => (rp.n = rp.max_tries /\ rp.warned = <<rp.max_tries>>)
          /\ ~LastCandidateHit => rp.warned = <<>>
          /\ IsExample(ExampleFull) =>
                (rp.n = 128 /\ rp.warned = <<128>> /\ rp.ret = <<0, 0>>)

C3_Witness ==
    /\ rp.pc = "done" /\ IsExample(ExampleFull) /\ rp.warned = <<128>>

\* C4: each coordinate is drawn from [start, max(end - size, start)], which is
\* never reversed; a marker that fits on an axis stays inside the boundary
\* on that axis, and one that does not fit starts at the boundary's start.
C4_SampledInsideClampedRange ==
    LET b == rp.boundary
        r == RangeOf(rp)
    IN  /\ r.x0 = b.xmin /\ r.x1 = Max(b.xmax - rp.w, b.xmin) /\ r.x0 <= r.x1
        /\ r.y0 = b.ymin /\ r.y1 = Max(b.ymax - rp.h, b.ymin) /\ r.y0 <= r.y1
        /\ rp.n > 0 =>
              /\ b.xmin <= rp.x /\ rp.x <= Max(b.xmax - rp.w, b.xmin)
              /\ b.ymin <= rp.y /\ rp.y <= Max(b.ymax - rp.h, b.ymin)
              /\ rp.w <= width(b) => rp.x + rp.w <= b.xmax
              /\ rp.h <= height(b) => rp.y + rp.h <= b.ymax
              /\ rp.w > width(b) => rp.x = b.xmin
              /\ rp.h > height(b) => rp.y = b.ymin
        /\ rp.pc = "done" => (rp.ret[1] = rp.x /\ rp.ret[2] = rp.y)

C4_Witness ==
    /\ rp.pc = "done" /\ rp.w > width(rp.boundary) /\ rp.h < height(rp.boundary)
    /\ rp.boundary.xmin > 0

----------------------------------------------------------------------------
(* Properties of HideRats and RatGuide *)

\* the children of a guide layer that carry no guide mode, in order
UntaggedKids(d, guide) == SelectSeq(NodeAt(d, guide).kids, LAMBDA k : k.gmode = "")

\* the groups tagged as guide layers below `scope`
GuideGroups(d, scope) ==
    { q \in SeqToSet(AllPaths(d)) :
        /\ IsPrefix(scope, q) /\ q # scope
        /\ NodeAt(d, q).tag = "g" /\ NodeAt(d, q).gmode = "layer" }

\* the elements below `guide` that link back to the element with this id
Linked(d, guide, id) ==
    { q \in SeqToSet(Desc(d, guide)) : NodeAt(d, q).href = <<"#", id>> }

\* the invocation got past its checks and set-up
Underway == run.status \in {"running", "ok"}

\* C1: while one invocation places its markers, the box of every marker it
\* has already placed, as it lies in the document, is in the exclusions the
\* next candidates are tested against.
C1_PlacedBoxesAreExclusions ==
    run.pc = "placing" =>
        \A i \in 1..Len(run.placed) :
            \E j \in 1..Len(run.exclusions) :
                run.exclusions[j] = bounding_box(doc, run.placed[i])

C1_Witness ==
    /\ run.ver = "v1" /\ run.pc = "placing" /\ Len(run.placed) = 1
    /\ bounding_box(doc, run.placed[1]) # bounding_box(before, run.sel[1])

\* C5: in an invocation with the restart flag every box the candidates are
\* tested against is a permanent exclusion, the box of an untagged child of
\* the guide layer, or the box of a marker placed in this invocation.
C5_RestartForgetsEarlierRuns ==
    (run.ver = "v1" /\ run.restart /\ Underway) =>
        \A j \in 1..Len(run.exclusions) :
            \/ \E i \in 1..Len(find_exclusions(doc).boxes) :
                  run.exclusions[j] = find_exclusions(doc).boxes[i]
            \/ \E i \in 1..Len(NodeAt(doc, run.guide).kids) :
                  /\ NodeAt(doc, run.guide).kids[i].gmode = ""
                  /\ run.exclusions[j] = bounding_box(doc, Append(run.guide, i))
            \/ \E i \in 1..Len(run.placed) :
                  run.exclusions[j] = bounding_box(doc, run.placed[i])

\* C6: right after a reset of the guide layer, a second reset leaves the
\* guide layer with the same children: the same boundary and exclusion boxes
\* and the same untagged children.
C6_ResetTwiceSameGuide ==
    (run.ver = "v0" /\ run.restart /\ run.sel = <<>> /\ run.status = "ok") =>
        LET again == guide_reset_v0(doc, run.guide)
        IN  /\ again.crash = ""
            /\ NodeAt(again.d, run.guide) = NodeAt(doc, run.guide)

C6_Witness ==
    /\ run.ver = "v0" /\ run.restart /\ run.sel = <<>> /\ run.status = "ok"
    /\ UntaggedKids(doc, run.guide) # <<>>
    /\ \E g \in GuideGroups(before, <<>>) : \E i \in 1..Len(NodeAt(before, g).kids) :
          NodeAt(before, g).kids[i].href # <<>>

C8_OneLinkedZonePerSource ==
    run.ver = "v0" =>
        /\ \A g \in GuideGroups(doc, <<>>) : \A q1, q2 \in SeqToSet(Desc(doc, g)) :
              (NodeAt(doc, q1).href # <<>> /\ NodeAt(doc, q1).href = NodeAt(doc, q2).href)
                  => q1 = q2
        /\ \A i \in 1..Len(run.placed) :
              LET zones == Linked(doc, run.guide, NodeAt(doc, run.placed[i]).id)
              IN  /\ Cardinality(zones) = 1
                  /\ \A q \in zones :
                        /\ NodeAt(doc, q).gmode = "exclusion"
                        /\ bounding_box(doc, q) = bounding_box(doc, run.placed[i])

C8_Witness ==
    /\ run.ver = "v0" /\ run.count = 2
    /\ \E i \in 1..Len(run.placed) :
          \E q \in Linked(before, run.guide, NodeAt(doc, run.placed[i]).id) :
              bounding_box(before, q) # bounding_box(doc, run.placed[i])

\* C9: after an invocation that got past its checks, the scope it searched
\* for the guide layer holds exactly one group tagged as guide layer.
C9_GuideLayerSingleton ==
    Underway => Cardinality(GuideGroups(doc, run.scope)) = 1

\* a selection find_rat_layer has to refuse: empty, with an element that is
\* not a <use> of a rat or tube symbol, spread over layers, or on no layer
BadSelection(d, sel) ==
    \/ sel = <<>>
    \/ \E i \in 1..Len(sel) :
          \/ NodeAt(d, sel[i]).tag # "use"
          \/ NodeAt(d, sel[i]).href \notin MarkerHrefs
          \/ \A k \in 0..(Len(sel[i]) - 1) : ~NodeAt(d, SubSeq(sel[i], 1, k)).layer
    \/ \E i, j \in 1..Len(sel) : containing_layer(d, sel[i]) # containing_layer(d, sel[j])

\* C10: a selection that is refused is reported with one message, and the
\* document is then exactly the one the invocation found.
C10_RejectedSelectionLeavesDocument ==
    (run.ver = "v1" /\ run.status # "none") =>
        /\ BadSelection(before, run.sel) <=> run.status = "rejected"
        /\ run.status = "rejected" => (Len(run.msgs) = 1 /\ doc = before)

C10_Witness ==
    /\ run.ver = "v1" /\ run.status = "rejected" /\ run.count = 2
    /\ run.msgs = << "Rats are not all on the same layer" >>
    /\ GuideGroups(doc, <<>>) # {}

\* C12: an invocation aborted because of a bad selection ends, once its
\* message is reported, with a non-zero exit status, while an invocation
\* that ran to its end, with or without warnings, ends with status 0.
C12_AbortedRunExitsNonZero ==
    (run.ver = "v1" /\ run.pc = "idle") =>
        /\ run.status = "rejected" => (Len(run.msgs) = 1 /\ exit_status(run) # 0)
        /\ run.status = "ok" => exit_status(run) = 0

----------------------------------------------------------------------------
(* Properties of find_rat_layer and of blind cloning *)

\* the longest proper prefix of p that is the path of a layer, or None
NearestLayer(d, p) ==
    LET ks == { k \in 0..(Len(p) - 1) : IsLayer(NodeAt(d, SubSeq(p, 1, k))) }
    IN  IF ks = {} THEN None ELSE SubSeq(p, 1, CHOOSE k \in ks : \A j \in ks : j <= k)

MarkerLike(n) ==
    n.tag = "use" /\ n.href # <<>> /\ n.href[1] = "#" /\ n.href[2] \in {"rat", "pvc-tube"}

\* C11: find_rat_layer returns a layer L exactly when the selection is not
\* empty, every selected element is a <use> of a marker symbol and every
\* selected element has the same nearest enclosing layer L; in every other
\* case it raises BadRats (one message) and returns no layer.
C11_RatLayerIffCommonLayer ==
    run.op = "find_rat_layer" =>
        LET sel == run.sel
            good == /\ sel # <<>>
                    /\ \A i \in 1..Len(sel) : MarkerLike(NodeAt(before, sel[i]))
                    /\ NearestLayer(before, sel[1]) # None
                    /\ \A i \in 1..Len(sel) :
                          NearestLayer(before, sel[i]) = NearestLayer(before, sel[1])
        IN  /\ run.ok <=> good
            /\ run.ok => run.layer = NearestLayer(before, sel[1])
            /\ ~run.ok => (run.layer = None /\ Len(run.msgs) = 1)
            /\ doc = before

\* two markers of one blind are selected and the blind is returned
C11_Witness ==
    /\ run.op = "find_rat_layer" /\ run.ok
    /\ Len(run.sel) = 2 /\ run.layer = <<2, 1>>
    /\ NodeAt(before, run.sel[1]).href # NodeAt(before, run.sel[2]).href

\* the labels of the layers that are children of the element at p
LayerLabels(d, p) ==
    { NodeAt(d, p).kids[i].label : i \in { j \in 1..Len(NodeAt(d, p).kids) :
                                              /\ IsLayer(NodeAt(d, p).kids[j])
                                              /\ NodeAt(d, p).kids[j].label # <<>> } }

\* "<prefix> <integer>": some words, then a number
Numbered(label) == Len(label) >= 2 /\ label[Len(label)].kind = "num"

\* the same with a prefix that opens with a flag group "[o...]"
FlaggedNumbered(label) ==
    Numbered(label) /\ label[1].kind = "word" /\ label[1].text \in {"[o]", "[o|x]"}

Prefix(label) == SubSeq(label, 1, Len(label) - 1)

\* '<name> <index>' from the labels of ls: the shared prefix or 'Blind', and
\* one more than the largest trailing integer
NextLabel(ls) ==
    LET names == { Prefix(l) : l \in ls }
        top == CHOOSE k \in { l[Len(l)].val : l \in ls } :
                   \A l \in ls : l[Len(l)].val <= k
    IN  Append(IF \E nm \in names : names = {nm} THEN CHOOSE nm \in names : TRUE
               ELSE << Word("Blind") >>,
               Num(top + 1))

CloneDone == run.op = "clone_rat_layer" /\ run.crash = ""

\* C13 as stated: the clone is labelled from the sibling layer labels of the
\* form '<prefix> <integer>', whatever the prefix.
C13_CloneLabelAnyPrefix ==
    run.op = "clone_rat_layer" =>
        LET ls == { l \in LayerLabels(before, Parent(run.layer)) : Numbered(l) }
        IN  ls # {} => (run.crash = "" /\ NodeAt(doc, run.new).label = NextLabel(ls))

\* C13: the clone is labelled '<name> <index>' from the sibling layer labels
\* of the form '<prefix> <integer>' whose prefix opens with a flag group
\* "[o...]": index is one more than the largest trailing integer, name the
\* prefix they share, or 'Blind' when they carry more than one prefix; with
\* '[o] Blind 1' and '[o] Blind 2' the clone is '[o] Blind 3'.
C13_CloneLabelFlaggedPrefix ==
    run.op = "clone_rat_layer" =>
        LET all == LayerLabels(before, Parent(run.layer))
            ls == { l \in all : FlaggedNumbered(l) }
        IN  /\ ls # {} => (run.crash = "" /\ NodeAt(doc, run.new).label = NextLabel(ls))
            /\ all = { << Word("[o]"), Word("Blind"), Num(1) >>,
                       << Word("[o]"), Word("Blind"), Num(2) >> }
                  => NodeAt(doc, run.new).label = << Word("[o]"), Word("Blind"), Num(3) >>

\* the blinds are '[o] Blind 1' and '[o] Blind 2' and the second one is cloned
C13_Witness ==
    /\ CloneDone /\ run.layer = <<2, 2>>
    /\ NodeAt(before, <<2, 1>>).label = << Word("[o]"), Word("Blind"), Num(1) >>
    /\ NodeAt(before, <<2, 2>>).label = << Word("[o]"), Word("Blind"), Num(2) >>
    /\ NodeAt(doc, <<2, 1>>).label = << Word("[o]"), Word("Blind"), Num(3) >>

\* C14: when no sibling layer label has the form '<prefix> <integer>' (or the
\* parent has no labelled layer at all), cloning succeeds and the clone is
\* labelled 'Blind 1'.
C14_NoNumberedLabelGivesBlind1 ==
    run.op = "clone_rat_layer" =>
        ((\A l \in LayerLabels(before, Parent(run.layer)) : ~Numbered(l)) =>
            /\ run.crash = ""
            /\ run.new # None
            /\ NodeAt(doc, run.new).label = << Word("Blind"), Num(1) >>)

\* the attributes of an element other than id and inkscape:label
OtherAttrs(n) ==
    << n.tag, n.layer, n.hidden, n.locked, n.href, n.gmode, n.place, n.box, n.tf >>

\* the copy has, position by position, the number of children, the tag and
\* the attributes of the original, and no id; `keep` says whether the label
\* of the root is compared as well
SameShape(orig, copy, keep) ==
    \A q \in SeqToSet(SubtreePaths(orig, <<>>)) :
        /\ Len(NodeAt(copy, q).kids) = Len(NodeAt(orig, q).kids)
        /\ OtherAttrs(NodeAt(copy, q)) = OtherAttrs(NodeAt(orig, q))
        /\ (keep \/ q # <<>>) => NodeAt(copy, q).label = NodeAt(orig, q).label
        /\ NodeAt(copy, q).id = ""

UniqueIds(d) ==
    \A p, q \in SeqToSet(AllPaths(d)) :
        (p # q /\ NodeAt(d, p).id # "") => NodeAt(d, p).id # NodeAt(d, q).id

\* C15 as stated: the clone has the shape of the original layer and the same
\* attributes other than id at each position, no node of it has an id, and
\* ids that were unique stay unique.
C15_CloneSameAttributes ==
    CloneDone =>
        /\ SameShape(NodeAt(before, run.layer), NodeAt(doc, run.new), TRUE)
        /\ UniqueIds(before) => UniqueIds(doc)

\* C15: the same, except that the root of the clone carries the generated
\* label in place of the original's inkscape:label.
C15_CloneSameShapeNoIds ==
    CloneDone =>
        /\ SameShape(NodeAt(before, run.layer), NodeAt(doc, run.new), FALSE)
        /\ UniqueIds(before) => UniqueIds(doc)

\* a blind with an id of its own and three children with ids was cloned
C15_Witness ==
    /\ CloneDone /\ UniqueIds(before)
    /\ NodeAt(before, run.layer).id = "blind"
    /\ Len(NodeAt(doc, run.new).kids) = 3
    /\ \A i \in 1..3 : NodeAt(before, run.layer).kids[i].id # ""

\* C16: after clone_rat_layer the clone is the first child of the original
\* layer's parent, the parent's other children follow unchanged, the
\* original layer is still there with its children unchanged and is hidden
\* and locked, and the clone is hidden or locked only if the original was so
\* before the call.
C16_CloneFirstOriginalHidden ==
    CloneDone =>
        LET parent == Parent(run.layer)
            at == run.layer[Len(run.layer)]
            was == NodeAt(before, run.layer)
            kids == NodeAt(doc, parent).kids
            new == NodeAt(doc, run.new)
        IN  /\ run.new = Append(parent, 1)
            /\ Len(kids) = Len(NodeAt(before, parent).kids) + 1
            /\ \A i \in 1..Len(NodeAt(before, parent).kids) :
                  i # at => kids[i + 1] = NodeAt(before, parent).kids[i]
            /\ kids[at + 1] = [was EXCEPT !.hidden = TRUE, !.locked = TRUE]
            /\ new.hidden = was.hidden /\ new.locked = was.locked
            /\ Len(new.kids) = Len(was.kids)
            /\ [NodeAt(doc, parent) EXCEPT !.kids = <<>>]
                  = [NodeAt(before, parent) EXCEPT !.kids = <<>>]

\* the second blind, visible and unlocked, was cloned: it is now the third
\* child of the ring, hidden and locked, behind its visible clone
C16_Witness ==
    /\ CloneDone /\ run.layer = <<2, 2>>
    /\ ~NodeAt(before, <<2, 2>>).hidden /\ ~NodeAt(before, <<2, 2>>).locked
    /\ NodeAt(doc, <<2, 3>>).hidden /\ NodeAt(doc, <<2, 3>>).locked
    /\ NodeAt(doc, <<2, 3>>).id = "other"
    /\ ~NodeAt(doc, <<2, 1>>).hidden /\ ~NodeAt(doc, <<2, 1>>).locked

----------------------------------------------------------------------------
(* Properties of exclusion discovery *)

Found == run.op \in {"find_exclusions", "find_exclusions_v0"}

Flagged(d) == { q \in SeqToSet(AllPaths(d)) : NodeAt(d, q).place = "exclude" }

\* outside the top-level <defs> and below no hidden layer
Shown(d, q) ==
    /\ q # <<>> /\ d.kids[q[1]].tag # "defs"
    /\ \A k \in 1..(Len(q) - 1) :
          ~(IsLayer(NodeAt(d, SubSeq(q, 1, k))) /\ NodeAt(d, SubSeq(q, 1, k)).hidden)

\* the references met at the root, and the elements a reference names
ShownRefs(d) ==
    { u \in SeqToSet(AllPaths(d)) :
        NodeAt(d, u).tag = "use" /\ NodeAt(d, u).href # <<>> /\ Shown(d, u) }

Targets(d, u) == { q \in SeqToSet(AllPaths(d)) : NodeAt(d, q).id = NodeAt(d, u).href[2] }

Unresolvable(d, u) == NodeAt(d, u).href[1] # "#" \/ Cardinality(Targets(d, u)) # 1

\* a reference inside the element it names
RefersBack(d) ==
    \E u \in ShownRefs(d) :
        NodeAt(d, u).href[1] = "#" /\ \E t \in Targets(d, u) : IsPrefix(t, u)

Count(b) == Cardinality({ j \in 1..Len(run.boxes) : run.boxes[j] = b })

\* C17: resolving a reference chain that leads back to an element on the
\* resolution path terminates with a reported error; the recursion is never
\* left to run until the interpreter stops it.
C17_CyclesEndWithReport ==
    Found =>
        /\ run.crash # "RecursionError"
        /\ RefersBack(before) => run.msgs # <<>>

\* C18: every reference met at the root that cannot be resolved (no leading
\* '#', id not found, id shared by several elements) is reported, contributes
\* no box, and the boxes of the other exclusion elements are still returned.
C18_UnresolvableRefsReported ==
    (Found /\ run.crash = "") =>
        LET bad == { u \in ShownRefs(before) : Unresolvable(before, u) }
        IN  /\ Len(run.msgs) >= Cardinality(bad)
            /\ \A u \in bad : \A j \in 1..Len(run.boxes) :
                  run.boxes[j].ymin # composed_transform(before, u)[2]
            /\ \A q \in Flagged(before) :
                  Shown(before, q) => Count(bounding_box(before, q)) >= 1

\* C19: started at the root, find_exclusions returns no box for a flagged
\* element inside the top-level <defs> or below a hidden layer and one box
\* for every other flagged element; a flagged element inside the target of
\* a reference met at the root contributes its box, moved by the reference,
\* wherever the target lies.
C19_HiddenSkippedTargetsNot ==
    (Found /\ run.crash = "") =>
        /\ \A q \in Flagged(before) :
              Count(bounding_box(before, q)) = IF Shown(before, q) THEN 1 ELSE 0
        /\ \A u \in ShownRefs(before) : \A t \in Targets(before, u) :
              \A e \in Flagged(before) :
                 (~Unresolvable(before, u) /\ IsPrefix(t, e)) =>
                    Count(Shift(bounding_box(before, e), composed_transform(before, u))) >= 1

\* layer A is hidden and the reference of layer B names it: the flagged
\* element of A is returned moved by the reference, not where it lies; the
\* reference inside A names the pattern in <defs>, returned moved by both
C19_Witness ==
    /\ Found /\ run.crash = ""
    /\ NodeAt(before, <<2>>).hidden
    /\ NodeAt(before, <<3, 1, 2>>).href = <<"#", "A">>
    /\ NodeAt(before, <<2, 2>>).href = <<"#", "pat">>
    /\ Count(BoundingBox(2, 3, 0, 1)) = 0
    /\ Count(BoundingBox(2, 3, 20, 21)) = 1
    /\ Count(BoundingBox(0, 1, 0, 1)) = 0
    /\ Count(BoundingBox(0, 1, 30, 31)) = 1

----------------------------------------------------------------------------
(* Properties of the boundary accessors *)

\* the smallest box that contains the boxes of bs (bs not empty)
SmallestBox(bs) ==
    BoundingBox(CHOOSE v \in { b.xmin : b \in bs } : \A b \in bs : v <= b.xmin,
                CHOOSE v \in { b.xmax : b \in bs } : \A b \in bs : v >= b.xmax,
                CHOOSE v \in { b.ymin : b \in bs } : \A b \in bs : v <= b.ymin,
                CHOOSE v \in { b.ymax : b \in bs } : \A b \in bs : v >= b.ymax)

\* the boxes of the boundary rectangles of the guide layer, and those of the
\* boundary elements of the course
GuideBoundaries(d) ==
    { NodeAt(d, q).box : q \in { r \in SeqToSet(AllPaths(d)) : NodeAt(d, r).gmode = "boundary" } }

CourseBoundaries(d) ==
    { NodeAt(d, q).box : q \in { r \in SeqToSet(AllPaths(d)) : NodeAt(d, r).place = "boundary" } }

IsBox(b) == b # NoBox /\ b.xmin <= b.xmax /\ b.ymin <= b.ymax

\* C20: get_boundary returns the smallest box that contains every
\* boundary-tagged rectangle of the guide layer, for one, two or more of
\* them, and the page bounds when there is none; the result is a box with
\* left <= right and top <= bottom.  (get_rat_boundary does the same with
\* the boundary elements of the course.)
C20_BoundaryIsSmallestBox ==
    /\ run.op = "get_boundary_v0" =>
          /\ run.ok /\ IsBox(run.result)
          /\ run.result = IF GuideBoundaries(before) = {} THEN before.box
                          ELSE SmallestBox(GuideBoundaries(before))
    /\ run.op = "get_rat_boundary" =>
          /\ IsBox(run.result)
          /\ run.result = IF CourseBoundaries(before) = {} THEN before.box
                          ELSE SmallestBox(CourseBoundaries(before))

----------------------------------------------------------------------------
(* Properties of the guide layer's exclusions *)

\* the boxes of the elements below g that are tagged as exclusions, and of
\* the children of g without a guide mode
TaggedBoxes(d, g) ==
    { bounding_box(d, q) : q \in { r \in SeqToSet(AllPaths(d)) :
          /\ IsPrefix(g, r) /\ r # g
          /\ NodeAt(d, r).gmode = "exclusion" } }

DrawnBoxes(d, g) ==
    { bounding_box(d, Append(g, i)) :
        i \in { j \in 1..Len(NodeAt(d, g).kids) : NodeAt(d, g).kids[j].gmode = "" } }

\* the boxes read from the guide layer: all of run.boxes for the 2019
\* accessor, those after the exclusions passed in for RatGuide
ReadBoxes ==
    IF run.op = "RatGuide"
    THEN SubSeq(run.boxes, Len(run.result) + 1, Len(run.boxes))
    ELSE run.boxes

GuideRead == run.op \in {"get_exclusions_v0", "RatGuide"} /\ run.crash = ""

\* C21: the exclusions read from the guide layer are exactly the boxes of
\* the descendants tagged 'exclusion' and of the untagged direct children;
\* boundary and notation rectangles and untagged elements below a child are
\* not among them.
C21_GuideExclusionsRead ==
    GuideRead =>
        /\ SeqToSet(ReadBoxes) = TaggedBoxes(before, run.layer) \cup DrawnBoxes(before, run.layer)
        /\ Len(ReadBoxes) = Cardinality(TaggedBoxes(before, run.layer))
                              + Cardinality(DrawnBoxes(before, run.layer))
        /\ \A q \in SeqToSet(AllPaths(before)) :
              (\/ NodeAt(before, q).gmode \in {"boundary", "notation"}
               \/ (Len(q) > Len(run.layer) + 1 /\ NodeAt(before, q).gmode = ""))
              => bounding_box(before, q) \notin SeqToSet(ReadBoxes)
        /\ run.op = "RatGuide" =>
              SubSeq(run.boxes, 1, Len(run.result)) = run.result

\* a guide layer with a boundary or notation rectangle, a user's group and
\* an exclusion rectangle was read
C21_Witness ==
    /\ GuideRead
    /\ Len(NodeAt(before, run.layer).kids) = 3
    /\ \E i \in 1..3 : NodeAt(before, run.layer).kids[i].gmode \in {"boundary", "notation"}
    /\ \E i \in 1..3 : NodeAt(before, run.layer).kids[i].tag = "g"
    /\ \E i \in 1..3 : NodeAt(before, run.layer).kids[i].gmode = "exclusion"
    /\ Len(ReadBoxes) = 3

----------------------------------------------------------------------------
(* Properties of a marker's move *)

PageBox(m) == tfm_box(tfm_compose(chain_transform(m.chain), m.tf), m.box)

Moved == run.op \in {"place_rat", "position"}

\* C22: after a marker is placed its page bounding box has its top-left
\* corner at the position random_position returned and the width and height
\* it had, whatever the transforms of its ancestors and its own transform;
\* nothing but the marker's own transform is changed.
C22_MarkerMovedToPosition ==
    Moved =>
        /\ << PageBox(doc).xmin, PageBox(doc).ymin >> = run.result
        /\ PageBox(doc).xmax - PageBox(doc).xmin = PageBox(before).xmax - PageBox(before).xmin
        /\ PageBox(doc).ymax - PageBox(doc).ymin = PageBox(before).ymax - PageBox(before).ymin
        /\ [doc EXCEPT !.tf = before.tf] = before

----------------------------------------------------------------------------
(* Properties of an invocation with newblind *)

\* the layer of the selection of this invocation, and where the clone of
\* that layer and the layer itself lie afterwards
SelLayer == NearestLayer(before, run.sel[1])

ClonePath == Append(Parent(SelLayer), 1)

Original(q) ==
    IF IsPrefix(Parent(SelLayer), q) /\ Len(q) > Len(Parent(SelLayer))
    THEN [q EXCEPT ![Len(Parent(SelLayer)) + 1] = @ + 1]
    ELSE q

InClone(q) == ClonePath \o SubSeq(q, Len(SelLayer) + 1, Len(q))

NewBlindRun == run.ver = "v1" /\ run.newblind /\ Underway /\ run.sel # <<>>

\* C23: with newblind the markers moved are the copies in the cloned layer,
\* one per selected marker and at its place in the layer; the selected
\* markers of the original layer keep their transforms; as many markers are
\* placed as were selected.
C23_NewBlindMovesCopies ==
    NewBlindRun =>
        /\ Len(run.placed) + Len(run.rats) = Len(run.sel)
        /\ run.status = "ok" => Len(run.placed) = Len(run.sel)
        /\ { (run.placed \o run.rats)[i] : i \in 1..Len(run.sel) }
              = { InClone(run.sel[i]) : i \in 1..Len(run.sel) }
        /\ \A i \in 1..Len(run.sel) :
              /\ NodeAt(doc, Original(run.sel[i])).id = NodeAt(before, run.sel[i]).id
              /\ NodeAt(doc, Original(run.sel[i])).tf = NodeAt(before, run.sel[i]).tf
              /\ NodeAt(doc, InClone(run.sel[i])).id = ""
              /\ NodeAt(doc, InClone(run.sel[i])).href = NodeAt(before, run.sel[i]).href

\* two markers were selected and both copies were moved away from where the
\* selected markers lie
C23_Witness ==
    /\ NewBlindRun /\ run.status = "ok" /\ Len(run.sel) = 2
    /\ \A i \in 1..2 :
          NodeAt(doc, InClone(run.sel[i])).tf # NodeAt(doc, Original(run.sel[i])).tf

----------------------------------------------------------------------------
(* Properties of the 2019 guide layer between resets *)

\* the boxes of the exclusions of guide layer g, in document order
ExclBoxes(d, g) ==
    LET els == SelectSeq(Desc(d, g),
                   LAMBDA q : \/ NodeAt(d, q).gmode = "exclusion"
                              \/ (NodeAt(d, q).gmode = "" /\ Len(q) = Len(g) + 1))
    IN  [i \in 1..Len(els) |-> bbox_v0(d, els[i])]

\* the guide layer of a document of the 2019 revision
OldGuide(d) ==
    CHOOSE g \in SeqToSet(AllPaths(d)) :
        /\ NodeAt(d, g).tag = "g" /\ NodeAt(d, g).gmode = "layer"
        /\ \A h \in SeqToSet(AllPaths(d)) :
              (NodeAt(d, h).tag = "g" /\ NodeAt(d, h).gmode = "layer") => ~IsPrefix(h, g) \/ h = g

HasOldGuide(d) ==
    \E g \in SeqToSet(AllPaths(d)) : NodeAt(d, g).tag = "g" /\ NodeAt(d, g).gmode = "layer"

\* add_exclusion(rat.bbox, rat.xml_id) in the placement loop: one more child,
\* an exclusion rectangle linked to the marker; the children there were are
\* the same but for a link to that marker
OneRectAdded ==
    LET old == NodeAt(doc, run.guide).kids
        new == NodeAt(doc', run.guide).kids
        id  == NodeAt(doc, Head(run.rats)).id
    IN  /\ Len(new) = Len(old) + 1
        /\ new[Len(new)].tag = "rect" /\ new[Len(new)].gmode = "exclusion"
        /\ new[Len(new)].href = <<"#", id>>
        /\ \A i \in 1..Len(old) :
              /\ new[i] = [old[i] EXCEPT !.href = IF @ = <<"#", id>> THEN <<>> ELSE @]
        /\ Len(ExclBoxes(doc', run.guide)) = Len(ExclBoxes(doc, run.guide)) + 1

\* C24: add_exclusion of the 2019 revision never deletes a rectangle: a call
\* adds one exclusion rectangle, the rectangle that was linked to the source
\* id stays in the guide layer and among its exclusions and loses only the
\* link, and from one reset to the next the exclusion boxes of the guide
\* layer only grow.
C24_ExclusionsOnlyGrow ==
    [][ run.ver = "v0" =>
          /\ run.pc = "placing" => OneRectAdded
          /\ (HasOldGuide(doc) /\ ~(run'.restart /\ run'.count # run.count)) =>
                /\ Len(ExclBoxes(doc, OldGuide(doc))) <= Len(ExclBoxes(doc', OldGuide(doc)))
                /\ SubSeq(ExclBoxes(doc', OldGuide(doc)), 1, Len(ExclBoxes(doc, OldGuide(doc))))
                      = ExclBoxes(doc, OldGuide(doc)) ]_vars

\* a marker that had a linked rectangle was placed again: the rectangle is
\* still an exclusion of the guide layer, at its place and without its link,
\* and the new rectangle lies elsewhere
C24_Witness ==
    /\ run.ver = "v0" /\ run.count = 2 /\ ~run.restart /\ run.status = "ok"
    /\ \E i \in 1..Len(run.placed) :
          \E q \in Linked(before, run.guide, NodeAt(doc, run.placed[i]).id) :
              /\ NodeAt(doc, q).gmode = "exclusion" /\ NodeAt(doc, q).href = <<>>
              /\ bbox_v0(doc, q) = bbox_v0(before, q)
              /\ bbox_v0(doc, q) # bbox_v0(doc, run.placed[i])
              /\ \E j \in 1..Len(ExclBoxes(doc, run.guide)) :
                    ExclBoxes(doc, run.guide)[j] = bbox_v0(before, q)

----------------------------------------------------------------------------
(* Properties of the notation rectangles *)

\* the boxes of the notation rectangles below g, in document order
NotationBoxes(d, g) ==
    LET els == SelectSeq(Desc(d, g), LAMBDA q : NodeAt(d, q).gmode = "notation")
    IN  [i \in 1..Len(els) |-> bounding_box(d, els[i])]

Occurrences(s, x) == Cardinality({ i \in 1..Len(s) : s[i] = x })

\* C25: notation rectangles do not pile up from one invocation to the next:
\* after an invocation the guide layer holds one notation rectangle per
\* permanent exclusion the invocation found, at that exclusion's box, and
\* they are not counted among the exclusions read from the guide layer (a
\* permanent exclusion is in the placer's list as often as it was found).
C25_NotationRedrawnEachRun ==
    (run.ver = "v1" /\ Underway) =>
        LET perm == find_exclusions(before).boxes
        IN  /\ NotationBoxes(doc, run.guide) = perm
            /\ \A q \in SeqToSet(Desc(doc, run.guide)) :
                  NodeAt(doc, q).gmode = "notation" => Len(q) = Len(run.guide) + 1
            /\ \A i \in 1..Len(perm) :
                  Occurrences(run.exclusions, perm[i]) = Occurrences(perm, perm[i])

\* a guide layer that had a notation rectangle from an earlier invocation
\* was used again
C25_Witness ==
    /\ run.ver = "v1" /\ run.count = 2 /\ run.status = "ok" /\ run.placed # <<>>
    /\ NotationBoxes(doc, run.guide) # <<>>
    /\ \E g \in GuideGroups(before, run.scope) : NotationBoxes(before, g) # <<>>

----------------------------------------------------------------------------
(* Properties of an invocation on an accepted selection *)

\* C26: for every selection find_rat_layer accepts, the invocation runs to
\* its end without an exception: the guide layer is found or created in the
\* layer that contains the rat layer and every selected marker is placed,
\* also when the rat layer is a top-level layer.
C26_AcceptedSelectionRunsThrough ==
    (run.ver = "v1" /\ run.count > 0 /\ ~BadSelection(before, run.sel)) =>
        /\ Underway
        /\ NodeAt(doc, run.guide).gmode = "layer"
        /\ Len(run.placed) + Len(run.rats) = Len(run.sel)

----------------------------------------------------------------------------
(* Properties of temporary_visibility *)

\* C27: when the context is left, by whichever path, every element has the
\* style attribute it had when the context was entered, also an element
\* that was set more than once and one that had no style attribute.
C27_VisibilityUndoneOnExit ==
    (run.pc = "out" /\ run.exit # "") => doc = before

\* the context was left through sys.exit() after three calls on two
\* elements, one of which has no style attribute
C27_Witness ==
    /\ run.pc = "out" /\ run.exit = "exit" /\ run.calls = MaxCalls
    /\ \E e \in VisElems : ~doc[e].present
    /\ doc = before

----------------------------------------------------------------------------
(* Properties of is_appimage_executable *)

ActiveAppImage == doc.APPDIR \notin {Unset, EmptyValue} /\ doc.APPIMAGE

InsideAppDir ==
    /\ doc.which # Unset
    /\ doc.which.drive = doc.APPDIR.drive
    /\ Len(doc.APPDIR.names) < Len(doc.which.names)
    /\ SubSeq(doc.which.names, 1, Len(doc.APPDIR.names)) = doc.APPDIR.names

\* C28: is_appimage_executable(prog) returns true exactly when prog resolves
\* to an executable inside the directory of the active AppImage, false when
\* no AppImage is active or prog resolves to nothing, and never raises.
C28_AppImageExecutable ==
    run.op = "is_appimage_executable" =>
        /\ run.crash = ""
        /\ run.result <=> (ActiveAppImage /\ InsideAppDir)

----------------------------------------------------------------------------
(* Properties of load_symbols *)

Standard(f) == f.scale = <<>> \/ f.scale = <<48, 1>>

ScaleString(f) ==
    IF f.scale = <<>> THEN Digits(48) \o Colon \o Digits(1)
    ELSE Digits(f.scale[1]) \o Colon \o Digits(f.scale[2])

\* file i is taken before file j: the standard scale first, then by scale,
\* files of one scale as the directory lists them
TakenBefore(i, j) ==
    \/ Standard(doc[i]) /\ ~Standard(doc[j])
    \/ /\ Standard(doc[i]) = Standard(doc[j])
       /\ \/ LexLess(ScaleString(doc[i]), ScaleString(doc[j]))
          \/ ScaleString(doc[i]) = ScaleString(doc[j]) /\ i < j

Scoped(sym) == \A k \in 1..Len(sym.inner) : sym.inner[k].scope = sym.id

\* the places of the symbols file f offers: inner ids scoped, and the first
\* of these with its id
Offered(f) ==
    { k \in 1..Len(doc[f].symbols) :
        /\ Scoped(doc[f].symbols[k])
        /\ \A j \in 1..(k - 1) :
              Scoped(doc[f].symbols[j]) => doc[f].symbols[j].id # doc[f].symbols[k].id }

OfferedIds(f) == { doc[f].symbols[k].id : k \in Offered(f) }

Contributes(f) == \E e \in run.symbols : e.file = f

SkippedWhole(f) ==
    \E k \in 1..Len(run.msgs) : run.msgs[k] = <<"duplicate symbol ids, skipping", f>>

LoadDone == run.op = "load_symbols"

\* What holds of every load: an id maps to one symbol, a symbol offered by
\* its file; a file contributes all it offers or nothing; a file that
\* offers something and contributes nothing offers an id that a file taken
\* before it contributed, and is reported.
LoadedWholeFiles ==
    /\ \A e1, e2 \in run.symbols : e1.id = e2.id => e1 = e2
    /\ \A e \in run.symbols :
          /\ e.file \in 1..Len(doc) /\ e.place \in Offered(e.file)
          /\ doc[e.file].symbols[e.place].id = e.id
    /\ \A f \in 1..Len(doc) :
          /\ Contributes(f) => \A k \in Offered(f) :
                [id |-> doc[f].symbols[k].id, file |-> f, place |-> k] \in run.symbols
          /\ Contributes(f) => ~SkippedWhole(f)
          /\ (~Contributes(f) /\ Offered(f) # {}) =>
                /\ SkippedWhole(f)
                /\ \E e \in run.symbols : e.id \in OfferedIds(f) /\ TakenBefore(e.file, f)
          /\ Offered(f) = {} => ~SkippedWhole(f)

\* C29 as stated: each id is mapped to the symbol of the first file, in the
\* order the files are taken, that defines it.
C29_FirstDefiningFileWins ==
    LoadDone =>
        /\ LoadedWholeFiles
        /\ \A e \in run.symbols : \A f \in 1..Len(doc) :
              e.id \in OfferedIds(f) => (f = e.file \/ TakenBefore(e.file, f))

\* C29: files are taken the standard scale first and then by scale; a file
\* offering an id that is already loaded is skipped whole, with a warning;
\* each id is mapped to the symbol of the first file that offers it and was
\* not skipped; within a file a symbol with unscoped inner ids is dropped and
\* of the others with one id the first is kept.
C29_FirstLoadedFileWins ==
    LoadDone =>
        /\ LoadedWholeFiles
        /\ \A e \in run.symbols : \A f \in 1..Len(doc) :
              (e.id \in OfferedIds(f) /\ ~SkippedWhole(f))
                  => (f = e.file \/ TakenBefore(e.file, f))

\* three files: the one taken second is skipped for an id of the first, and
\* an id it offers too is loaded from the third
C29_Witness ==
    /\ LoadDone /\ Len(doc) = 3
    /\ \E f, g, h \in 1..3 :
          /\ TakenBefore(f, g) /\ TakenBefore(g, h)
          /\ ~Standard(doc[g]) /\ ~Standard(doc[h])
          /\ Contributes(f) /\ SkippedWhole(g) /\ Contributes(h)
          /\ OfferedIds(g) \cap OfferedIds(h) # {}

----------------------------------------------------------------------------
(* Properties of update_symbols *)

\* the drawing's defs element: the first defs among the root's children
HasDefs(d) == \E i \in 1..Len(d.kids) : d.kids[i].tag = "defs"

DefsOf(d) ==
    << CHOOSE i \in 1..Len(d.kids) :
          d.kids[i].tag = "defs" /\ \A j \in 1..(i - 1) : d.kids[j].tag # "defs" >>

\* the symbols that are to be replaced
ToReplace(d, q) ==
    /\ HasDefs(d) /\ Parent(q) = DefsOf(d)
    /\ NodeAt(d, q).tag = "symbol" /\ NodeAt(d, q).id \in run.symbols

\* the library's symbol: no '...:old' element in it, a '...:new' one
FromLibrary(n, id) ==
    /\ n.tag = "symbol" /\ n.id = id
    /\ Len(n.kids) = 1 /\ n.kids[1].id = InnerId(id, "new")

UpdateDone == run.op = "update_symbols"

\* C30: update_symbols replaces exactly the symbols that are direct
\* children of the defs and whose id is a key of the library, each by the
\* library's symbol and each with a report; other symbols and everything
\* outside the defs are unchanged; with an empty library the drawing is
\* unchanged.
C30_UpdatesSymbolsOfDefs ==
    UpdateDone =>
        /\ \A q \in SeqToSet(AllPaths(before)) :
              IF ToReplace(before, q)
              THEN /\ FromLibrary(NodeAt(doc, q), NodeAt(before, q).id)
                   /\ Cardinality({ k \in 1..Len(run.msgs) :
                          run.msgs[k] = <<"Updating", NodeAt(before, q).id>> }) = 1
              ELSE (\A r \in SeqToSet(AllPaths(before)) : ToReplace(before, r) => ~IsPrefix(r, q))
                      => /\ q \in SeqToSet(AllPaths(doc))
                         /\ [NodeAt(doc, q) EXCEPT !.kids = <<>>]
                               = [NodeAt(before, q) EXCEPT !.kids = <<>>]
                         /\ Len(NodeAt(doc, q).kids) = Len(NodeAt(before, q).kids)
        /\ Len(run.msgs) = Cardinality({ q \in SeqToSet(AllPaths(before)) : ToReplace(before, q) })
        /\ run.symbols = {} => doc = before

\* a drawing with a symbol in the defs that was replaced, one in the defs
\* that the library does not have, and one inside a group of the defs that
\* the library has
C30_Witness ==
    /\ UpdateDone /\ run.crash = "" /\ Len(run.msgs) = 1
    /\ \E q, r, t \in SeqToSet(AllPaths(before)) :
          /\ ToReplace(before, q) /\ NodeAt(doc, q) # NodeAt(before, q)
          /\ Parent(r) = DefsOf(before) /\ NodeAt(before, r).id \in SymbolIds \ run.symbols
          /\ NodeAt(doc, r) = NodeAt(before, r)
          /\ Len(t) = 3 /\ Parent(Parent(t)) = DefsOf(before)
          /\ NodeAt(before, t).id \in run.symbols /\ NodeAt(before, t).tag = "symbol"
          /\ NodeAt(doc, t) = NodeAt(before, t)

====
